---- MODULE Spec2Model ----
(***************************************************************************)
(* A model of the restaurant contact scraper: the Contact Validator        *)
(* (is_valid_email), the Pattern Extractor, the Contact-Page Discoverer,   *)
(* the search-result filter (search_google_web), the Page Pipeline         *)
(* (scrape_single_page) and the two discovery flows.                       *)
(*                                                                         *)
(* Python strings are tuples of one-character strings, so that lower(),    *)
(* strip(), "in", split() and the regular expressions are computed on the  *)
(* characters.  Python's None is the tuple None, which is no string.       *)
(***************************************************************************)
EXTENDS Integers, Sequences, FiniteSets, TLC

\* ------------------------------------------------------------------------
\* Python values and string operations
\* ------------------------------------------------------------------------

\* Python's None.  Its one element is not a character, so None differs from
\* every string, the empty string included.
None == <<"None">>

\* Python truthiness of a str-or-None value: `if v:` / `not v`.
Truthy(v) == v # None /\ v # <<>>

\* dict.get(key) with the default None.
Get(d, k) == IF k \in DOMAIN d THEN d[k] ELSE None

LowerLetters ==
  <<"a","b","c","d","e","f","g","h","i","j","k","l","m",
    "n","o","p","q","r","s","t","u","v","w","x","y","z">>

UpperLetters ==
  <<"A","B","C","D","E","F","G","H","I","J","K","L","M",
    "N","O","P","Q","R","S","T","U","V","W","X","Y","Z">>

Alpha == {LowerLetters[i] : i \in 1..26}

AlphaUpper == {UpperLetters[i] : i \in 1..26}

Digit == {"0","1","2","3","4","5","6","7","8","9"}

Whitespace == {" ", "\t", "\n"}

LowerChar(c) ==
  IF c \in AlphaUpper
    THEN LowerLetters[CHOOSE i \in 1..26 : UpperLetters[i] = c]
    ELSE c

\* str.lower()
lower(s) == [i \in 1..Len(s) |-> LowerChar(s[i])]

\* str.strip()
strip(s) ==
  LET keep == {i \in 1..Len(s) : s[i] \notin Whitespace}
  IN  IF keep = {} THEN <<>>
      ELSE LET lo == CHOOSE i \in keep : \A j \in keep : i <= j
               hi == CHOOSE i \in keep : \A j \in keep : j <= i
           IN  SubSeq(s, lo, hi)

\* s[i:j] on 1-based, inclusive positions, empty when out of range.
Slice(s, i, j) == IF i > j THEN <<>> ELSE SubSeq(s, i, j)

\* p occurs in s at position i.
OccursAt(s, p, i) ==
  /\ i >= 1
  /\ i + Len(p) - 1 <= Len(s)
  /\ \A k \in 1..Len(p) : s[i + k - 1] = p[k]

\* `p in s`
Contains(s, p) == \E i \in 1..(Len(s) - Len(p) + 1) : OccursAt(s, p, i)

\* s.startswith(p)
startswith(s, p) == OccursAt(s, p, 1)

\* s.count(c) for a one-character c
count(s, c) == Cardinality({i \in 1..Len(s) : s[i] = c})

\* The first position of p in s, 0 when there is none (s.find(p) + 1).
Find(s, p) ==
  IF Contains(s, p)
    THEN CHOOSE i \in 1..Len(s) : OccursAt(s, p, i)
                                  /\ \A j \in 1..(i - 1) : ~OccursAt(s, p, j)
    ELSE 0

\* s.split(p)[0]
SplitFirst(s, p) == IF Find(s, p) = 0 THEN s ELSE Slice(s, 1, Find(s, p) - 1)

\* What follows the first p in s (s itself is returned by no caller: the
\* callers test `p in s` first).
AfterFirst(s, p) == Slice(s, Find(s, p) + Len(p), Len(s))

\* s.split(p)[1], for s that contains p: the text between the first p and
\* the next one.
SplitSecond(s, p) == SplitFirst(AfterFirst(s, p), p)

\* s.split(".")[-1]
SplitLast(s, c) ==
  LET at == {i \in 1..Len(s) : s[i] = c}
  IN  IF at = {} THEN s
      ELSE Slice(s, (CHOOSE i \in at : \A j \in at : j <= i) + 1, Len(s))

AllIn(s, S) == \A i \in 1..Len(s) : s[i] \in S

\* str.isalpha(): non-empty and all letters.
isalpha(s) == s # <<>> /\ AllIn(s, Alpha \cup AlphaUpper)

\* re.sub(r'\D', '', s)
DigitsOf(s) == SelectSeq(s, LAMBDA c : c \in Digit)

\* ------------------------------------------------------------------------
\* Contact Validator
\* ------------------------------------------------------------------------

LocalChars == Alpha \cup Digit \cup {".", "_", "%", "+", "-"}

DomainChars == Alpha \cup Digit \cup {".", "-"}

\* The format with a local part that may be empty.
EmailFormatEmptyLocal(email) ==
  \E a \in 1..Len(email) :
    /\ email[a] = "@"
    /\ AllIn(Slice(email, 1, a - 1), LocalChars)
    /\ \E d \in (a + 2)..(Len(email) - 2) :
         /\ email[d] = "."
         /\ AllIn(Slice(email, d + 1, Len(email)), Alpha)
         /\ AllIn(Slice(email, a + 1, d - 1), DomainChars)

\* re.match(r'^[a-z0-9._%+-]+@[a-z0-9.-]+\.[a-z]{2,}$', email)
EmailFormat(email) ==
  \E a \in 2..Len(email) :
    /\ email[a] = "@"
    /\ AllIn(Slice(email, 1, a - 1), LocalChars)
    /\ \E d \in (a + 2)..(Len(email) - 2) :
         /\ email[d] = "."
         /\ AllIn(Slice(email, d + 1, Len(email)), Alpha)
         /\ AllIn(Slice(email, a + 1, d - 1), DomainChars)

\* The fake, test, asset and aggregator strings rejected anywhere in the address.
invalid_patterns ==
  << <<"e","x","a","m","p","l","e",".","c","o","m">>,
     <<"d","o","m","a","i","n",".","c","o","m">>,
     <<"e","m","a","i","l",".","c","o","m">>,
     <<"t","e","s","t",".","c","o","m">>,
     <<"p","l","a","c","e","h","o","l","d","e","r">>,
     <<"y","o","u","r","s","i","t","e">>,
     <<"y","o","u","r","d","o","m","a","i","n">>,
     <<"s","i","t","e","l","o","c","k">>,
     <<"s","c","h","e","m","a",".","o","r","g">>,
     <<"w","3",".","o","r","g">>,
     <<"w","i","x",".","c","o","m">>,
     <<"w","e","b","p","a","c","k">>,
     <<"f","r","o","n","t","e","n","d">>,
     <<"b","a","c","k","e","n","d">>,
     <<"b","u","n","d","l","e">>,
     <<"c","h","u","n","k">>,
     <<"g","o","o","g","l","e","t","a","g","m","a","n","a","g","e","r">>,
     <<"a","n","a","l","y","t","i","c","s">>,
     <<".","p","n","g">>,
     <<".","j","p","g">>,
     <<".","j","p","e","g">>,
     <<".","g","i","f">>,
     <<"f","a","c","e","b","o","o","k",".","c","o","m">>,
     <<"t","w","i","t","t","e","r",".","c","o","m">>,
     <<"i","n","s","t","a","g","r","a","m",".","c","o","m">>,
     <<"l","i","n","k","e","d","i","n",".","c","o","m">>,
     <<"e","a","z","y","d","i","n","e","r",".","c","o","m">>,
     <<"z","o","m","a","t","o",".","c","o","m">>,
     <<"s","w","i","g","g","y",".","c","o","m">>,
     <<"u","b","e","r","e","a","t","s",".","c","o","m">>,
     <<"d","o","o","r","d","a","s","h",".","c","o","m">>,
     <<"g","r","u","b","h","u","b",".","c","o","m">>,
     <<"o","p","e","n","t","a","b","l","e",".","c","o","m">>,
     <<"b","o","o","k","a","t","a","b","l","e",".","c","o","m">>,
     <<"m","e","t","h","o","d","i","s","t","c","o","l","l","e","g","e",".","c","o","m">>,
     <<"l","e","a","r","n","e","r">>,
     <<"e","n","l","i","g","h","t","s","a","g","o",".","c","o","m">> >>

MaxEmailLen == 100

\* re.search(r'[a-z]{3,}\d+[a-z]{3,}\d+', username)
ArtifactRun(username) ==
  \E j \in 4..Len(username) :
    /\ username[j] \in Digit
    /\ AllIn(Slice(username, j - 3, j - 1), Alpha)
    /\ \E k \in (j + 1)..(Len(username) - 3) :
         /\ AllIn(Slice(username, j, k - 1), Digit)
         /\ AllIn(Slice(username, k, k + 2), Alpha)
         /\ \E l \in (k + 3)..Len(username) :
              /\ username[l] \in Digit
              /\ AllIn(Slice(username, k, l - 1), Alpha)

BusinessStarts ==
  { <<"c","o","n","t","a","c","t">>, <<"s","u","p","p","o","r","t">>,
    <<"i","n","f","o">> }

\* The checks without the one on the length.
ValidNormalisedAnyLength(email) ==
  /\ EmailFormat(email)
  /\ ~\E i \in 1..Len(invalid_patterns) : Contains(email, invalid_patterns[i])
  /\ ~(count(email, "-") > 3 \/ count(email, "_") > 3)
  /\ LET username == SplitFirst(email, <<"@">>)
     IN  /\ ~ArtifactRun(username)
         /\ ~(\/ count(username, ".") > 2
              \/ /\ username[1] \in Digit
                 /\ Slice(username, 1, IF Len(username) < 7 THEN Len(username) ELSE 7)
                      \notin BusinessStarts)
  /\ LET tld == SplitLast(email, ".")
     IN  ~(Len(tld) < 2 \/ ~isalpha(tld))

\* The checks made on the lower-cased, stripped address.
ValidNormalised(email) ==
  /\ EmailFormat(email)
  /\ Len(email) <= MaxEmailLen
  /\ ~\E i \in 1..Len(invalid_patterns) : Contains(email, invalid_patterns[i])
  /\ ~(count(email, "-") > 3 \/ count(email, "_") > 3)
  /\ LET username == SplitFirst(email, <<"@">>)
     IN  /\ ~ArtifactRun(username)
         /\ ~(\/ count(username, ".") > 2
              \/ /\ username[1] \in Digit
                 /\ Slice(username, 1, IF Len(username) < 7 THEN Len(username) ELSE 7)
                      \notin BusinessStarts)
  /\ LET tld == SplitLast(email, ".")
     IN  ~(Len(tld) < 2 \/ ~isalpha(tld))

is_valid_email(email) ==
  IF ~Truthy(email) \/ ~Contains(email, <<"@">>)
    THEN FALSE
    ELSE ValidNormalised(strip(lower(email)))

\* username[0] at line 94 raises IndexError on an empty username: the one
\* expression of the function that can raise on a string.  It is read when
\* the checks before it passed and username has at most 2 dots.
IndexFault(email) ==
  /\ Truthy(email)
  /\ Contains(email, <<"@">>)
  /\ LET e == strip(lower(email))
         username == SplitFirst(e, <<"@">>)
     IN  /\ EmailFormat(e)
         /\ Len(e) <= MaxEmailLen
         /\ ~\E i \in 1..Len(invalid_patterns) : Contains(e, invalid_patterns[i])
         /\ ~(count(e, "-") > 3 \/ count(e, "_") > 3)
         /\ ~ArtifactRun(username)
         /\ ~(count(username, ".") > 2)
         /\ username = <<>>

\* What a call gives: the exception raised, or none and the verdict returned.
is_valid_email_call(email) ==
  IF IndexFault(email) THEN [raised |-> "IndexError"]
  ELSE [raised |-> "", returned |-> is_valid_email(email)]

\* ------------------------------------------------------------------------
\* Pattern Extractor
\*
\* A page is the record of what BeautifulSoup and the regular expressions
\* find in it, in document order:
\*   title     the text of <title>, "" when there is none
\*   mailto    group(1) of the mailto: pattern in each mailto link that matches
\*   data_email  the data-email attribute values
\*   sections  per contact-section element, re.findall of the address pattern
\*   obfuscated  re.findall of the obfuscated pattern: (user, domain, tld)
\*   sweep     re.findall of the address pattern over the page source
\*   tel       the href of each tel: link
\*   phones    per phone pattern (6 of them), re.findall over the search text
\*   links     the <a href> elements: [href, text]
\* ------------------------------------------------------------------------

\* The index of the first element of seq satisfying Ok, 0 when none does.
FirstIndex(seq, Ok(_)) ==
  LET hits == {i \in 1..Len(seq) : Ok(seq[i])}
  IN  IF hits = {} THEN 0 ELSE CHOOSE i \in hits : \A j \in hits : i <= j

\* Method 1: the first mailto address that validates, lower-cased before
\* validation.
EmailFromMailto(page) ==
  LET cands == [i \in 1..Len(page.mailto) |-> lower(page.mailto[i])]
      k == FirstIndex(cands, is_valid_email)
  IN  IF k = 0 THEN None ELSE cands[k]

\* Method 2: the first data-email value that validates, lower-cased after.
EmailFromAttribute(page) ==
  LET k == FirstIndex(page.data_email, is_valid_email)
  IN  IF k = 0 THEN None ELSE lower(page.data_email[k])

\* Method 3: the first contact section holding a valid address gives its
\* first valid address.
EmailFromSections(page) ==
  LET HasValid(found) == FirstIndex(found, is_valid_email) # 0
      s == FirstIndex(page.sections, HasValid)
  IN  IF s = 0 THEN None
      ELSE lower(page.sections[s][FirstIndex(page.sections[s], is_valid_email)])

\* Method 4: only the first obfuscated match is rebuilt and validated.
EmailFromObfuscated(page) ==
  IF page.obfuscated = <<>> THEN None
  ELSE LET m == page.obfuscated[1]
           potential_email == lower(m[1] \o <<"@">> \o m[2] \o <<".">> \o m[3])
       IN  IF is_valid_email(potential_email) THEN potential_email ELSE None

business_prefixes ==
  << <<"i","n","f","o">>, <<"c","o","n","t","a","c","t">>, <<"h","e","l","l","o">>,
     <<"s","u","p","p","o","r","t">>, <<"m","a","i","l">>,
     <<"i","n","q","u","i","r","y">>, <<"s","a","l","e","s">>, <<"a","d","m","i","n">> >>

HasBusinessPrefix(e) ==
  \E i \in 1..Len(business_prefixes) : Contains(lower(e), business_prefixes[i])

\* Method 5: among the valid addresses of the whole page, the first with a
\* business prefix, else the first.
EmailFromSweep(page) ==
  LET valid_emails == SelectSeq(page.sweep, is_valid_email)
      k == FirstIndex(valid_emails, HasBusinessPrefix)
  IN  IF k # 0 THEN lower(valid_emails[k])
      ELSE IF valid_emails # <<>> THEN lower(valid_emails[1])
      ELSE None

\* The email methods in their order; each runs only `if not email`.
EmailMethods(page) ==
  << EmailFromMailto(page), EmailFromAttribute(page), EmailFromSections(page),
     EmailFromObfuscated(page), EmailFromSweep(page) >>

ExtractEmail(page) ==
  LET m == EmailMethods(page)
      k == FirstIndex(m, Truthy)
  IN  IF k = 0 THEN None ELSE m[k]

MinPhoneDigits == 10

\* Phone method 1: the first tel: link with 10 digits or more.
PhoneFromTel(page) ==
  LET Enough(href) == Len(DigitsOf(href)) >= MinPhoneDigits
      k == FirstIndex(page.tel, Enough)
  IN  IF k = 0 THEN None ELSE DigitsOf(page.tel[k])

\* Phone method 2, the loop over phone_patterns from pattern p on: every
\* pattern with a match assigns phone, and the loop breaks only on 10 digits.
RECURSIVE PhoneFromPatterns(_, _, _)
PhoneFromPatterns(page, p, phone) ==
  IF p > Len(page.phones) THEN phone
  ELSE IF page.phones[p] = <<>> THEN PhoneFromPatterns(page, p + 1, phone)
  ELSE LET digits == DigitsOf(page.phones[p][1])
       IN  IF Len(digits) >= MinPhoneDigits THEN digits
           ELSE PhoneFromPatterns(page, p + 1, digits)

ExtractPhone(page) ==
  IF Truthy(PhoneFromTel(page)) THEN PhoneFromTel(page)
  ELSE PhoneFromPatterns(page, 1, PhoneFromTel(page))

extract_contact_info_from_website(page) ==
  [email |-> ExtractEmail(page), phone |-> ExtractPhone(page)]

\* ------------------------------------------------------------------------
\* Pattern Extractor: what its two address patterns find in a text
\* ------------------------------------------------------------------------

Letters == Alpha \cup AlphaUpper

\* [A-Za-z0-9._%+-], [A-Za-z0-9.-], [A-Z|a-z] and \w
UserChars == LocalChars \cup AlphaUpper

HostChars == DomainChars \cup AlphaUpper

TldChars == Letters \cup {"|"}

WordChars == Letters \cup Digit \cup {"_"}

\* The character of s at i, "" outside s.
At(s, i) == IF i \in 1..Len(s) THEN s[i] ELSE ""

\* The first position from i on whose character is not in C, Len(s)+1
\* when there is none: where a greedy run of C that starts at i stops.
FirstOutside(s, i, C) ==
  LET at == {k \in i..Len(s) : s[k] \notin C}
  IN  IF at = {} THEN Len(s) + 1 ELSE CHOOSE k \in at : \A j \in at : k <= j

Largest(S) == CHOOSE k \in S : \A j \in S : j <= k

\* \b between the positions i-1 and i
Boundary(s, i) == (At(s, i - 1) \in WordChars) # (At(s, i) \in WordChars)

\* \s*[\[\(]?\s* c \s*[\]\)]?\s* matched from position i: the position
\* after it, 0 when it does not match.
Separator(s, i, c) ==
  LET p1 == FirstOutside(s, i, Whitespace)
      p2 == IF At(s, p1) \in {"[", "("} THEN p1 + 1 ELSE p1
      p3 == FirstOutside(s, p2, Whitespace)
      p4 == FirstOutside(s, p3 + 1, Whitespace)
      p5 == IF At(s, p4) \in {"]", ")"} THEN p4 + 1 ELSE p4
  IN  IF At(s, p3) # c THEN 0 ELSE FirstOutside(s, p5, Whitespace)

\* The obfuscated pattern (line 669) matched from position i: the three
\* groups and the position after the match, or <<>>.  The user group runs up
\* to the separator with the literal "@"; the domain group is the longest
\* that leaves a separator with the literal "." and two letters or more.
ObfuscatedAt(s, i) ==
  LET a == FirstOutside(s, i, UserChars)
      b == IF a > i THEN Separator(s, a, "@") ELSE 0
      r == IF b = 0 THEN 0 ELSE FirstOutside(s, b, HostChars)
      TldAt(e) == Separator(s, e, ".")
      Fits(e) == TldAt(e) # 0 /\ FirstOutside(s, TldAt(e), Letters) - TldAt(e) >= 2
      ends == {e \in (b + 1)..r : Fits(e)}
  IN  IF b = 0 \/ ends = {} THEN <<>>
      ELSE LET e == Largest(ends)
               d == TldAt(e)
               f == FirstOutside(s, d, Letters)
           IN  << Slice(s, i, a - 1), Slice(s, b, e - 1), Slice(s, d, f - 1), f >>

\* re.findall(obfuscated_pattern, s) from position i on
RECURSIVE ObfuscatedFindall(_, _)
ObfuscatedFindall(s, i) ==
  LET starts == {k \in i..Len(s) : ObfuscatedAt(s, k) # <<>>}
  IN  IF starts = {} THEN <<>>
      ELSE LET k == CHOOSE k \in starts : \A j \in starts : k <= j
               m == ObfuscatedAt(s, k)
           IN  << <<m[1], m[2], m[3]>> >> \o ObfuscatedFindall(s, m[4])

\* [A-Za-z0-9._%+-]+@[A-Za-z0-9.-]+\.[A-Z|a-z]{2,} matched from position
\* i, between word boundaries when bounded (lines 655, 681) and anywhere
\* when not (line 625): the position after the match, 0 when it does not
\* match.  The domain is the longest that leaves a "." and a top-level part
\* of two characters or more; the top-level part is then the longest.
AddressEnd(s, i, bounded) ==
  LET a == FirstOutside(s, i, UserChars)
      r == FirstOutside(s, a + 1, HostChars)
      TldEnd(d) ==
        LET m == FirstOutside(s, d, TldChars)
            fs == {f \in (d + 2)..m : bounded => Boundary(s, f)}
        IN  IF fs = {} THEN 0 ELSE Largest(fs)
      dots == {e \in (a + 2)..(r - 1) : s[e] = "." /\ TldEnd(e + 1) # 0}
  IN  IF a = i \/ (bounded /\ ~Boundary(s, i)) \/ At(s, a) # "@" \/ dots = {} THEN 0
      ELSE TldEnd(Largest(dots) + 1)

AddressAt(s, i) == AddressEnd(s, i, TRUE)

\* re.findall(email_pattern, s) from position i on
RECURSIVE AddressFindall(_, _)
AddressFindall(s, i) ==
  LET starts == {k \in i..Len(s) : AddressAt(s, k) # 0}
  IN  IF starts = {} THEN <<>>
      ELSE LET k == CHOOSE k \in starts : \A j \in starts : k <= j
           IN  << Slice(s, k, AddressAt(s, k) - 1) >> \o AddressFindall(s, AddressAt(s, k))

\* ------------------------------------------------------------------------
\* Pattern Extractor: what its phone patterns find in a text
\* ------------------------------------------------------------------------

\* A pattern without alternatives is a sequence of <<class, least, most>>;
\* the classes that follow one another are disjoint wherever a count is
\* open, so the greedy match is the only one.  The position after the match
\* from i, 0 when there is none.
RECURSIVE MatchItems(_, _, _)
MatchItems(s, i, items) ==
  IF items = <<>> THEN i
  ELSE LET run == FirstOutside(s, i, items[1][1]) - i
           n == IF run > items[1][3] THEN items[1][3] ELSE run
       IN  IF n < items[1][2] THEN 0 ELSE MatchItems(s, i + n, Tail(items))

Lit(c) == << {c}, 1, 1 >>

Digits(n) == << Digit, n, n >>

MobileStart == << {"6", "7", "8", "9"}, 1, 1 >>

CountryCode == << Lit("+"), Lit("9"), Lit("1") >>

\* [-\s]? and [-.\s]?
DashOrSpace == << {"-"} \cup Whitespace, 0, 1 >>

AnySeparator == << {"-", "."} \cup Whitespace, 0, 1 >>

\* phone_patterns[1..4] of lines 722-725, counted from 0 as the code does
\* (the patterns without a group: findall gives the whole match)
phone_patterns ==
  << CountryCode \o << AnySeparator, Digits(10) >>,
     << MobileStart, Digits(2), AnySeparator, Digits(3), AnySeparator, Digits(4) >>,
     << Lit("("), Digits(3), Lit(")"), AnySeparator, Digits(3), AnySeparator, Digits(4) >>,
     << Digits(5), DashOrSpace, Digits(5) >> >>

\* The first element of re.findall for a pattern without a group, as a list
\* of one element or none: the code reads phones[0] only.
FirstWhole(s, items) ==
  LET starts == {k \in 1..Len(s) : MatchItems(s, k, items) # 0}
  IN  IF starts = {} THEN <<>>
      ELSE LET k == CHOOSE k \in starts : \A j \in starts : k <= j
           IN  << Slice(s, k, MatchItems(s, k, items) - 1) >>

\* Line 721, (\+91[-\s]?)?[6-9]\d{9}: findall gives the group, which is
\* empty when the number has no country code.
FirstMobile(s) ==
  LET Number == << MobileStart, Digits(9) >>
      Code(k) == MatchItems(s, k, CountryCode \o << DashOrSpace >>)
      Coded(k) == Code(k) # 0 /\ MatchItems(s, Code(k), Number) # 0
      starts == {k \in 1..Len(s) : Coded(k) \/ MatchItems(s, k, Number) # 0}
  IN  IF starts = {} THEN <<>>
      ELSE LET k == CHOOSE k \in starts : \A j \in starts : k <= j
           IN  IF Coded(k) THEN << Slice(s, k, Code(k) - 1) >> ELSE << <<>> >>

\* Line 726, whatsapp[:\s]+([+\d\s-]+): findall gives the group.  The
\* separators take all they can and give back one white space when nothing
\* is left for the group.
FirstWhatsapp(s) ==
  LET word == <<"w", "h", "a", "t", "s", "a", "p", "p">>
      GroupChars == {"+", "-"} \cup Digit \cup Whitespace
      After(k) == FirstOutside(s, k + Len(word), {":"} \cup Whitespace)
      Start(k) ==
        IF FirstOutside(s, After(k), GroupChars) > After(k) THEN After(k)
        ELSE IF After(k) - 1 > k + Len(word) /\ At(s, After(k) - 1) \in Whitespace
             THEN After(k) - 1
        ELSE 0
      starts == {k \in 1..Len(s) : /\ OccursAt(s, word, k)
                                   /\ After(k) > k + Len(word)
                                   /\ Start(k) # 0}
  IN  IF starts = {} THEN <<>>
      ELSE LET k == CHOOSE k \in starts : \A j \in starts : k <= j
           IN  << Slice(s, Start(k), FirstOutside(s, Start(k), GroupChars) - 1) >>

\* What the six patterns find in the text searched, in the order of the list.
PhonesFound(s) ==
  << FirstMobile(s) >> \o [p \in 1..Len(phone_patterns) |-> FirstWhole(s, phone_patterns[p])]
     \o << FirstWhatsapp(s) >>

\* ------------------------------------------------------------------------
\* A page as the Pattern Extractor reads it
\* ------------------------------------------------------------------------

\* Line 625, re.search of mailto:(address) in an href, re.I: group 1 of the
\* first occurrence that an address follows, as a list of one or none.
MailtoGroup(href) ==
  LET scheme == <<"m","a","i","l","t","o",":">>
      starts == {k \in 1..Len(href) : /\ OccursAt(lower(href), scheme, k)
                                      /\ AddressEnd(href, k + Len(scheme), FALSE) # 0}
  IN  IF starts = {} THEN <<>>
      ELSE LET k == CHOOSE k \in starts : \A j \in starts : k <= j
           IN  << Slice(href, k + Len(scheme), AddressEnd(href, k + Len(scheme), FALSE) - 1) >>

RECURSIVE Flatten(_)
Flatten(seqs) == IF seqs = <<>> THEN <<>> ELSE Head(seqs) \o Flatten(Tail(seqs))

\* ' '.join(texts)
JoinSpaced(texts) ==
  Flatten([i \in 1..Len(texts) |-> IF i = 1 THEN texts[i] ELSE <<" ">> \o texts[i]])

\* The markup of a page: its title, its links to pages, the hrefs of its
\* mailto: and tel: links, the values of its data-email attributes, the
\* texts of its contact sections and the rest of its text.  page_source is
\* the markup written out.
page_source(m) ==
  <<"<","t","i","t","l","e",">">> \o m.title \o <<"<","/","t","i","t","l","e",">">>
  \o Flatten([i \in 1..Len(m.links) |->
                <<"<","a"," ","h","r","e","f","=","\"">> \o m.links[i].href \o <<"\"",">">> \o m.links[i].text \o <<"<","/","a",">">>])
  \o Flatten([i \in 1..Len(m.mailto) |-> <<"<","a"," ","h","r","e","f","=","\"">> \o m.mailto[i] \o <<"\"",">","E","m","a","i","l","<","/","a",">">>])
  \o Flatten([i \in 1..Len(m.tel) |-> <<"<","a"," ","h","r","e","f","=","\"">> \o m.tel[i] \o <<"\"",">","C","a","l","l","<","/","a",">">>])
  \o Flatten([i \in 1..Len(m.data_email) |-> <<"<","i"," ","d","a","t","a","-","e","m","a","i","l","=","\"">> \o m.data_email[i] \o <<"\"",">","<","/","i",">">>])
  \o Flatten([i \in 1..Len(m.sections) |-> <<"<","d","i","v"," ","c","l","a","s","s","=","\"","c","o","n","t","a","c","t","\"",">">> \o m.sections[i] \o <<"<","/","d","i","v",">">>])
  \o m.body

NoMarkup ==
  [title |-> <<>>, links |-> <<>>, mailto |-> <<>>, tel |-> <<>>, data_email |-> <<>>,
   sections |-> <<>>, body |-> <<>>]

\* What the lookups and findall calls of lines 622-733 give on a page: the
\* sections are searched by text, the obfuscated pattern and the sweep run
\* over page_source, and the phone patterns over the joined contact
\* sections or, without any, over page_source (line 719).
Parsed(m) ==
  [title |-> m.title,
   mailto |-> Flatten([i \in 1..Len(m.mailto) |-> MailtoGroup(m.mailto[i])]),
   data_email |-> m.data_email,
   sections |-> [i \in 1..Len(m.sections) |-> AddressFindall(m.sections[i], 1)],
   obfuscated |-> ObfuscatedFindall(page_source(m), 1),
   sweep |-> AddressFindall(page_source(m), 1),
   tel |-> m.tel,
   phones |-> PhonesFound(IF m.sections # <<>> THEN JoinSpaced(m.sections)
                          ELSE page_source(m)),
   links |-> m.links]

\* ------------------------------------------------------------------------
\* Contact-Page Discoverer
\* ------------------------------------------------------------------------

SchemeChars == Alpha \cup AlphaUpper \cup Digit \cup {"+", "-", "."}

\* The position of the colon ending the URL's scheme, 0 when it has none.
SchemeEnd(url) ==
  LET c == Find(url, <<":">>)
  IN  IF c > 1 /\ url[1] \in Alpha \cup AlphaUpper
           /\ AllIn(Slice(url, 1, c - 1), SchemeChars)
        THEN c ELSE 0

\* The first position from i on holding a character of S, Len(s)+1 when none.
FirstOf(s, i, S) ==
  LET at == {k \in i..Len(s) : s[k] \in S}
  IN  IF at = {} THEN Len(s) + 1 ELSE CHOOSE k \in at : \A j \in at : k <= j

\* Where the path starts in an absolute URL with an authority.
PathStart(url) == FirstOf(url, SchemeEnd(url) + 3, {"/", "?", "#"})

HasAuthority(url) == OccursAt(url, <<"/","/">>, SchemeEnd(url) + 1)

\* urlparse(url).netloc
netloc(url) ==
  IF HasAuthority(url) THEN Slice(url, SchemeEnd(url) + 3, PathStart(url) - 1)
  ELSE <<>>

\* The base URL up to and including the last "/" of its path; a base with an
\* empty path gives "scheme://netloc/".
BaseDirectory(base_url) ==
  LET p == PathStart(base_url)
      q == FirstOf(base_url, p, {"?", "#"})
      slashes == {k \in p..(q - 1) : base_url[k] = "/"}
  IN  IF slashes = {} THEN Slice(base_url, 1, p - 1) \o <<"/">>
      ELSE Slice(base_url, 1, CHOOSE k \in slashes : \A j \in slashes : j <= k)

\* urljoin(base_url, href) for an http(s) base and an href that is empty, has
\* a scheme of its own, is network-relative (//host/..), root-relative (/..),
\* a fragment (#..), a query (?..) or a relative path without dot segments.
urljoin(base_url, href) ==
  IF href = <<>> THEN base_url
  ELSE IF SchemeEnd(href) # 0 THEN href
  ELSE IF startswith(href, <<"/","/">>)
    THEN Slice(base_url, 1, SchemeEnd(base_url)) \o href
  ELSE IF href[1] = "/"
    THEN Slice(base_url, 1, PathStart(base_url) - 1) \o href
  ELSE IF href[1] = "#"
    THEN Slice(base_url, 1, FirstOf(base_url, PathStart(base_url), {"#"}) - 1) \o href
  ELSE IF href[1] = "?"
    THEN Slice(base_url, 1, FirstOf(base_url, PathStart(base_url), {"?", "#"}) - 1) \o href
  ELSE BaseDirectory(base_url) \o href

contact_keywords ==
  << <<"c","o","n","t","a","c","t">>, <<"a","b","o","u","t">>, <<"r","e","a","c","h">>,
     <<"g","e","t","-","i","n","-","t","o","u","c","h">>,
     <<"c","o","n","n","e","c","t">>, <<"s","u","p","p","o","r","t">> >>

\* The keyword test on a link: the lower-cased href or the lower-cased,
\* stripped text contains a keyword.
HasContactKeyword(link) ==
  \E i \in 1..Len(contact_keywords) :
    \/ Contains(lower(link.href), contact_keywords[i])
    \/ Contains(lower(strip(link.text)), contact_keywords[i])

\* Remove duplicates while preserving order: an element joins the result
\* when no earlier element equals it.  The one-element set binds the
\* sequence and the result for its front once, as a loop variable would.
RECURSIVE Unique(_)
Unique(seq) ==
  IF seq = <<>> THEN <<>>
  ELSE CHOOSE unique \in
         { IF \E i \in 1..Len(init) : init[i] = s[Len(s)] THEN init
           ELSE Append(init, s[Len(s)]) :
             <<s, init>> \in { <<q, Unique(SubSeq(q, 1, Len(q) - 1))>> : q \in {seq} } } : TRUE

\* seq[:n]
Take(seq, n) == IF Len(seq) <= n THEN seq ELSE SubSeq(seq, 1, n)

MaxContactPages == 3

\* The same without the cut at three pages.
find_contact_pages_uncut(page, base_url) ==
  LET base_domain == netloc(base_url)
      Keep(link) == /\ HasContactKeyword(link)
                    /\ netloc(urljoin(base_url, link.href)) = base_domain
      kept == SelectSeq(page.links, Keep)
      contact_pages == [i \in 1..Len(kept) |-> urljoin(base_url, kept[i].href)]
  IN  Unique(contact_pages)

find_contact_pages(page, base_url) ==
  LET base_domain == netloc(base_url)
      Keep(link) == /\ HasContactKeyword(link)
                    /\ netloc(urljoin(base_url, link.href)) = base_domain
      kept == SelectSeq(page.links, Keep)
      contact_pages == [i \in 1..Len(kept) |-> urljoin(base_url, kept[i].href)]
  IN  Take(Unique(contact_pages), MaxContactPages)

\* ------------------------------------------------------------------------
\* Inference Adapter
\*
\* A response of the inference service is a fault, or text that json.loads
\* rejects ("malformed"), parses to something that is no object
\* ("nonobject"), or parses to an object ("object", with the keys it has; a
\* JSON null is None).
\* ------------------------------------------------------------------------

EmptyAIResult ==
  [email |-> None, phone |-> None, business_name |-> None, is_restaurant |-> FALSE]

extract_contacts_with_ai(response) ==
  IF response.kind = "object"
    THEN [email |-> Get(response.obj, "email"),
          phone |-> Get(response.obj, "phone"),
          business_name |-> Get(response.obj, "business_name"),
          is_restaurant |-> IF "is_restaurant" \in DOMAIN response.obj
                              THEN response.obj["is_restaurant"] ELSE FALSE]
    ELSE EmptyAIResult

\* The answer is the affirmative token and nothing else.
validate_restaurant_website_exact(answer) ==
  IF answer.kind = "fault" THEN FALSE
  ELSE lower(strip(answer.text)) = <<"y","e","s">>

\* The classifier's answer is a fault or the answer text.
validate_restaurant_website(answer) ==
  IF answer.kind = "fault" THEN FALSE
  ELSE Contains(lower(strip(answer.text)), <<"y","e","s">>)

\* ------------------------------------------------------------------------
\* The inputs the checks draw from
\* ------------------------------------------------------------------------

NoPhones == << <<>>, <<>>, <<>>, <<>>, <<>>, <<>> >>

BlankMarkup == NoMarkup

\* Parsed(BlankMarkup)
BlankPage ==
  [title |-> <<>>, mailto |-> <<>>, data_email |-> <<>>, sections |-> <<>>,
   obfuscated |-> <<>>, sweep |-> <<>>, tel |-> <<>>, phones |-> NoPhones,
   links |-> <<>>]

\* A home page with a mailto link and the three links of the Discoverer's
\* example.
MailtoMarkup ==
  [NoMarkup EXCEPT
     !.title = <<"A","c","m","e"," ","B","i","s","t","r","o"," ","|"," ","H","o","m","e">>,
     !.mailto = << <<"m","a","i","l","t","o",":","H","e","l","l","o","@","A","c","m","e",".","t","e","s","t">> >>,
     !.links = << [href |-> <<"/","c","o","n","t","a","c","t","-","u","s">>, text |-> <<"C","o","n","t","a","c","t"," ","u","s">>],
                  [href |-> <<"/","a","b","o","u","t">>, text |-> <<"O","u","r"," ","s","t","o","r","y">>],
                  [href |-> <<"/","s","h","o","p">>, text |-> <<"S","h","o","p">>] >>]

\* Parsed(MailtoMarkup), written out
MailtoPage ==
  [BlankPage EXCEPT
     !.title = MailtoMarkup.title,
     !.mailto = << << "H", "e", "l", "l", "o", "@", "A", "c", "m", "e", ".", "t", "e", "s", "t" >> >>,
     !.obfuscated = << << <<"H", "e", "l", "l", "o">>, <<"A", "c", "m", "e">>, <<"t", "e", "s", "t">> >> >>,
     !.sweep = << << "H", "e", "l", "l", "o", "@", "A", "c", "m", "e", ".", "t", "e", "s", "t" >> >>,
     !.links = MailtoMarkup.links]

\* A page with a telephone link only, and more contact links than the
\* Discoverer keeps: a duplicate, another host, a relative path.
TelMarkup ==
  [NoMarkup EXCEPT
     !.title = <<"B","i","s","t","r","o"," ","-"," ","F","i","n","e"," ","D","i","n","i","n","g">>,
     !.tel = << <<"t","e","l",":","1","2","3","4","5">>, <<"t","e","l",":","+","1","-","5","5","5","-","1","2","3","-","4","5","6","7">> >>,
     !.links = << [href |-> <<"/","C","o","n","t","a","c","t">>, text |-> <<" ","C","o","n","t","a","c","t"," ">>],
                  [href |-> <<"h","t","t","p","s",":","/","/","o","t","h","e","r",".","t","e","s","t","/","a","b","o","u","t">>, text |-> <<"A","b","o","u","t">>],
                  [href |-> <<"/","C","o","n","t","a","c","t">>, text |-> <<"G","e","t"," ","i","n"," ","t","o","u","c","h">>],
                  [href |-> <<"t","e","a","m",".","h","t","m","l">>, text |-> <<"R","e","a","c","h"," ","t","h","e"," ","t","e","a","m">>],
                  [href |-> <<"/","s","u","p","p","o","r","t">>, text |-> <<"H","e","l","p">>],
                  [href |-> <<"/","c","o","n","n","e","c","t">>, text |-> <<"C","o","n","n","e","c","t">>] >>]

\* Parsed(TelMarkup), written out
TelPage ==
  [BlankPage EXCEPT
     !.title = TelMarkup.title,
     !.tel = TelMarkup.tel,
     !.links = TelMarkup.links]

\* A page whose only addresses are placeholders and asset names, and whose
\* only number is too short.
JunkMarkup ==
  [NoMarkup EXCEPT
     !.title = <<"M","e","n","u">>,
     !.body = <<"M","a","i","l"," ","i","n","f","o","@","e","x","a","m","p","l","e",".","c","o","m"," ","<","i","m","g"," ","s","r","c","=","\"","l","o","g","o","@","2","x",".","p","n","g","\"",">"," ","w","h","a","t","s","a","p","p",":"," ","1","2","3","4","5"," ","6","7","8","9">>,
     !.links = << [href |-> <<"/","a","b","o","u","t">>, text |-> <<"A","b","o","u","t">>] >>]

\* Parsed(JunkMarkup), written out
JunkPage ==
  [BlankPage EXCEPT
     !.title = JunkMarkup.title,
     !.obfuscated = << << <<"i", "n", "f", "o">>, <<"e", "x", "a", "m", "p", "l", "e">>, <<"c", "o", "m">> >>, <<<<"l", "o", "g", "o">>, <<"2", "x">>, <<"p", "n", "g">>>> >>,
     !.sweep = << << "i", "n", "f", "o", "@", "e", "x", "a", "m", "p", "l", "e", ".", "c", "o", "m" >>, <<"l", "o", "g", "o", "@", "2", "x", ".", "p", "n", "g">> >>,
     !.phones = << <<>>, <<>>, <<>>, <<>>, <<>>, <<<<"1", "2", "3", "4", "5", " ", "6", "7", "8", "9">>>> >>,
     !.links = JunkMarkup.links]

\* A page with addresses in the text only, after an asset name, and a number
\* in local format.
SweepMarkup ==
  [NoMarkup EXCEPT
     !.body = <<"<","i","m","g"," ","s","r","c","=","\"","i","c","o","n","@","2","x",".","p","n","g","\"",">"," ","b","o","b","@","b","i","s","t","r","o",".","i","n"," ","I","n","f","o","@","B","i","s","t","r","o",".","i","n"," ","9","8","7","-","6","5","4","-","3","2","1","0">>]

\* Parsed(SweepMarkup), written out
SweepPage ==
  [BlankPage EXCEPT
     !.obfuscated = << <<<<"i", "c", "o", "n">>, <<"2", "x">>, <<"p", "n", "g">>>>, <<<<"b", "o", "b">>, <<"b", "i", "s", "t", "r", "o">>, <<"i", "n">>>>, << <<"I", "n", "f", "o">>, <<"B", "i", "s", "t", "r", "o">>, <<"i", "n">> >> >>,
     !.sweep = << <<"i", "c", "o", "n", "@", "2", "x", ".", "p", "n", "g">>, <<"b", "o", "b", "@", "b", "i", "s", "t", "r", "o", ".", "i", "n">>, << "I", "n", "f", "o", "@", "B", "i", "s", "t", "r", "o", ".", "i", "n" >> >>,
     !.phones = << <<>>, <<>>, <<<<"9", "8", "7", "-", "6", "5", "4", "-", "3", "2", "1", "0">>>>, <<>>, <<>>, <<>> >>]

\* A page with addresses in a data attribute and in contact sections.
SectionMarkup ==
  [NoMarkup EXCEPT
     !.title = <<"C","a","f","e"," ","U","n","o">>,
     !.data_email = << <<"t","e","s","t","@","z","o","m","a","t","o",".","c","o","m">>, <<" ","O","w","n","e","r","@","C","a","f","e","U","n","o",".","i","n"," ">> >>,
     !.sections = << <<"W","r","i","t","e"," ","t","o"," ","i","n","f","o","@","e","x","a","m","p","l","e",".","c","o","m">>, <<"o","r"," ","h","i","@","c","a","f","e","u","n","o",".","i","n",","," ","+","9","1","-","9","8","7","6","5","4","3","2","1","0">> >>]

\* Parsed(SectionMarkup), written out
SectionPage ==
  [BlankPage EXCEPT
     !.title = SectionMarkup.title,
     !.data_email = SectionMarkup.data_email,
     !.sections = << << << "i", "n", "f", "o", "@", "e", "x", "a", "m", "p", "l", "e", ".", "c", "o", "m" >> >>, << << "h", "i", "@", "c", "a", "f", "e", "u", "n", "o", ".", "i", "n" >> >> >>,
     !.obfuscated = << << <<"t", "e", "s", "t">>, <<"z", "o", "m", "a", "t", "o">>, <<"c", "o", "m">> >>, << <<"O", "w", "n", "e", "r">>, <<"C", "a", "f", "e", "U", "n", "o">>, <<"i", "n">> >>, << <<"i", "n", "f", "o">>, <<"e", "x", "a", "m", "p", "l", "e">>, <<"c", "o", "m">> >>, << <<"h", "i">>, <<"c", "a", "f", "e", "u", "n", "o">>, <<"i", "n">> >> >>,
     !.sweep = << << "t", "e", "s", "t", "@", "z", "o", "m", "a", "t", "o", ".", "c", "o", "m" >>, << "O", "w", "n", "e", "r", "@", "C", "a", "f", "e", "U", "n", "o", ".", "i", "n" >>, << "i", "n", "f", "o", "@", "e", "x", "a", "m", "p", "l", "e", ".", "c", "o", "m" >>, <<"h", "i", "@", "c", "a", "f", "e", "u", "n", "o", ".", "i", "n">> >>,
     !.phones = << <<<<"+", "9", "1", "-">>>>, << << "+", "9", "1", "-", "9", "8", "7", "6", "5", "4", "3", "2", "1", "0" >> >>, <<<<"9", "8", "7", "6", "5", "4", "3", "2", "1", "0">>>>, <<>>, <<<<"9", "8", "7", "6", "5", "4", "3", "2", "1", "0">>>>, <<>> >>]

MarkupOf ==
  [name \in {"blank", "mailto", "tel", "junk", "sweep", "section"} |->
     CASE name = "blank" -> BlankMarkup
       [] name = "mailto" -> MailtoMarkup
       [] name = "tel" -> TelMarkup
       [] name = "junk" -> JunkMarkup
       [] name = "sweep" -> SweepMarkup
       [] name = "section" -> SectionMarkup]

PageOf ==
  [name \in {"blank", "mailto", "tel", "junk", "sweep", "section"} |->
     CASE name = "blank" -> BlankPage
       [] name = "mailto" -> MailtoPage
       [] name = "tel" -> TelPage
       [] name = "junk" -> JunkPage
       [] name = "sweep" -> SweepPage
       [] name = "section" -> SectionPage]

\* What each page gives the Pattern Extractor.
ExtractedFrom == [name \in DOMAIN PageOf |-> extract_contact_info_from_website(PageOf[name])]

Obj(email, phone, business_name) ==
  [kind |-> "object",
   obj |-> [k \in {"email", "phone", "business_name", "is_restaurant"} |->
              CASE k = "email" -> email
                [] k = "phone" -> phone
                [] k = "business_name" -> business_name
                [] k = "is_restaurant" -> TRUE]]

\* The inference service's answers to an extraction request.
AIResponses ==
  { [kind |-> "fault"], [kind |-> "malformed"], [kind |-> "nonobject"],
    [kind |-> "object", obj |-> [k \in {"is_restaurant"} |-> FALSE]],
    Obj(<<"h","e","l","l","o","@","a","c","m","e",".","t","e","s","t">>, None, <<"A","c","m","e"," ","B","i","s","t","r","o">>),
    Obj(None, <<"5","5","5","1","2","3","4","5","6","7">>, None),
    Obj(<<"i","n","f","o","@","e","x","a","m","p","l","e",".","c","o","m">>, None, <<"A","c","m","e"," ","B","i","s","t","r","o">>),
    Obj(<<"c","h","e","f","@","b","i","s","t","r","o",".","i","n">>, <<"+","9","1"," ","9","8","7","6","5"," ","4","3","2","1","0">>, <<"B","i","s","t","r","o">>) }

\* The inference service's answers to a classification request.
ClassifierAnswers ==
  { [kind |-> "fault"],
    [kind |-> "text", text |-> <<" ","Y","e","s","."," ">>],
    [kind |-> "text", text |-> <<"n","o">>],
    [kind |-> "text", text |-> <<"N","o","t"," ","a"," ","r","e","s","t","a","u","r","a","n","t">>] }

\* ------------------------------------------------------------------------
\* Discovery flows: the state of scrape_google_search_results and of
\* scrape_all_results
\* ------------------------------------------------------------------------

VARIABLES
  flow,        \* "search", "maps", or "none" when no flow is running
  fpc,         \* where the flow stands
  candidates,  \* website_urls, or maps_urls_list
  position,    \* the place in candidates of the entry being processed
  maps_data,   \* the local maps_data of the maps flow
  results,     \* the local results
  handed,      \* the places whose URL was given to scrape_single_page, in order
  mapped,      \* the places whose URL was given to scrape_google_maps_page, in order
  faulted      \* the places where one of these two calls met a fault that ended it

fvars == <<flow, fpc, candidates, position, maps_data, results, handed, mapped, faulted>>

\* The state of a direct call of one of the functions is_valid_email,
\* extract_contact_info_from_website and the two URL filters.
VARIABLES
  fn,    \* the function called, "none" when there is no such call
  arg,   \* its argument
  out    \* <<>> until it returns, then the one-element tuple of what it returned

uvars == <<fn, arg, out>>

\* No such call is made.
NoCall ==
  /\ fn = "none"
  /\ arg = <<>>
  /\ out = <<>>

\* The state of search_google_web.
VARIABLES
  spc,              \* where search_google_web stands
  cursor,           \* the link of RawLinks the result page continues with
  raw1,             \* the links of the first result page read so far
  raw2,             \* the links of the second result page read so far
  websites,         \* the local websites
  unique_websites,  \* the local unique_websites
  seen,             \* the local seen
  website_urls,     \* the list returned, once spc = "returned"
  slog              \* the browser operations of this search, in order

svars == <<spc, cursor, raw1, raw2, websites, unique_websites, seen, website_urls, slog>>

\* ------------------------------------------------------------------------
\* Page Pipeline: scrape_single_page(url, driver)
\* ------------------------------------------------------------------------

VARIABLES
  caller,         \* who runs the pipeline: "page" (a direct call), "search", "maps"
  pc,             \* where scrape_single_page stands
  url,            \* its url argument
  driver_given,   \* whether its driver argument is a driver (not None)
  close_driver,   \* the local close_driver
  fast_result,    \* the result of the fast attempt
  is_valid_restaurant,  \* the classifier's verdict, FALSE before it is asked
  home,           \* the rendered home page (page_source and soup), "none" before
  contact_info,   \* the record being filled
  contact_pages,  \* the Discoverer's list
  idx,            \* the position in contact_pages[:5] of the next visit
  visited,        \* the contact pages visited so far, in order
  ret,            \* the dictionary returned, once pc = "returned"
  log             \* the external operations made by this run, in order

pvars ==
  <<caller, pc, url, driver_given, close_driver, fast_result,
    is_valid_restaurant, home, contact_info, contact_pages, idx, visited, ret, log>>

EmptyDict == [k \in {} |-> None]

\* d[k] = v on a dictionary.
DictSet(d, k, v) == [x \in DOMAIN d \cup {k} |-> IF x = k THEN v ELSE d[x]]

\* The pages a fetch or a render may give, and the URLs a direct call is
\* made with.  A run inside a discovery flow draws from fewer pages.
Pages(c) == IF c = "page" THEN DOMAIN PageOf ELSE {"mailto", "tel", "junk"}

\* The pages the non-rendering fetch may give.
FetchedPages(c) == IF c = "page" THEN {"mailto", "junk", "section"} ELSE {"mailto", "junk"}

Responses(c) ==
  IF c = "page" THEN AIResponses
  ELSE { [kind |-> "fault"], Obj(None, <<"5","5","5","1","2","3","4","5","6","7">>, None),
         Obj(<<"i","n","f","o","@","e","x","a","m","p","l","e",".","c","o","m">>, None, <<"A","c","m","e"," ","B","i","s","t","r","o">>) }

Answers(c) ==
  IF c = "page" THEN ClassifierAnswers
  ELSE { [kind |-> "fault"], [kind |-> "text", text |-> <<" ","Y","e","s","."," ">>] }

PageUrls == { <<"h","t","t","p","s",":","/","/","a","c","m","e",".","t","e","s","t">>, <<"h","t","t","p","s",":","/","/","a","c","m","e",".","t","e","s","t","/","m","e","n","u","/","t","o","d","a","y">> }

\* scrape_with_requests: the Pattern Extractor on the fetched page, and the
\* empty result on any fault.
scrape_with_requests(fetched) ==
  IF fetched = "fault" THEN [email |-> None, phone |-> None]
  ELSE ExtractedFrom[fetched]

\* page_title_text.split('|')[0].split('-')[0].strip()
TitleName(title) == strip(SplitFirst(SplitFirst(title, <<"|">>), <<"-">>))

NotValidResult(u) ==
  [email |-> None, phone |-> None, website |-> u, is_valid |-> FALSE]

\* The driver is quit, whoever created it.
FinallyAlways(l) == Append(l, "quit")

\* The finally clause: the driver this run created is quit.
Finally(l) == IF close_driver THEN Append(l, "quit") ELSE l

\* The record built from the home page's AI result.
HomeRecord(ai_result, title, u) ==
  [email |-> ai_result.email,
   phone |-> ai_result.phone,
   business_name |-> IF Truthy(ai_result.business_name)
                       THEN ai_result.business_name ELSE TitleName(title),
   website |-> u,
   is_valid |-> TRUE]

\* The merge of a Pattern Extractor result: made only when email or phone
\* is missing, and only into the missing field.
NeedsTraditional(ci) == ~Truthy(ci.email) \/ ~Truthy(ci.phone)

MergeTraditional(ci, traditional) ==
  [ci EXCEPT
     !.email = IF Truthy(traditional.email) /\ ~Truthy(ci.email)
                 THEN traditional.email ELSE @,
     !.phone = IF Truthy(traditional.phone) /\ ~Truthy(ci.phone)
                 THEN traditional.phone ELSE @]

\* The merge of a contact page's AI result.
MergeContactAI(ci, contact_ai_result) ==
  [ci EXCEPT
     !.email = IF Truthy(contact_ai_result.email) THEN contact_ai_result.email ELSE @,
     !.phone = IF Truthy(contact_ai_result.phone) THEN contact_ai_result.phone ELSE @]

MaxVisits == 5

\* Line 411: the fast attempt ends the run when it found an email.
FastExitOnPhone(result) == Truthy(result.email) \/ Truthy(result.phone)

FastExit(result) == Truthy(result.email)

\* Line 447: a negative verdict ends the run.
GateIgnored(verdict) == FALSE

GateCloses(verdict) == ~verdict

\* Line 487: the contact pages are tried when the email is still missing.
CrawlNeeded(ci) == ~Truthy(ci.email)

\* Line 529: the loop stops once both fields are found.
FoundBothNeverStops(ci) == FALSE

FoundBoth(ci) == Truthy(ci.email) /\ Truthy(ci.phone)

\* for ... in contact_pages[:5]
ToVisit == Take(contact_pages, MaxVisits)

\* return contact_info, through the finally clause.
ReturnRecord(ci, l) ==
  /\ ret' = ci
  /\ log' = Finally(l)
  /\ pc' = "returned"

\* Lines 407-414: the fast attempt, and its early return on an email.
FastAttempt ==
  /\ UNCHANGED <<svars, fvars, uvars>>
  /\ pc = "fast"
  /\ \E fetched \in FetchedPages(caller) \cup {"fault"} :
       LET result == scrape_with_requests(fetched)
       IN  /\ fast_result' = result
           /\ log' = IF fetched = "fault" THEN Append(log, "fetch_fault")
                     ELSE log \o <<"fetch", "pattern">>
           /\ IF FastExit(result)
                THEN /\ ret' = DictSet(result, "website", url)
                     /\ pc' = "returned"
                ELSE /\ ret' = ret
                     /\ pc' = "driver"
  /\ UNCHANGED <<caller, url, driver_given, close_driver, is_valid_restaurant,
                 home, contact_info, contact_pages, idx, visited>>

\* Lines 419-422: a driver is created when none was given; initialize_driver
\* re-raises its fault, outside the try block.
InitDriver ==
  /\ UNCHANGED <<svars, fvars, uvars>>
  /\ pc = "driver"
  /\ IF driver_given
       THEN /\ close_driver' = FALSE
            /\ pc' = "render"
            /\ log' = log
       ELSE \E created \in BOOLEAN :
              IF created
                THEN /\ close_driver' = TRUE
                     /\ pc' = "render"
                     /\ log' = Append(log, "create")
                ELSE /\ close_driver' = close_driver
                     /\ pc' = "raised"
                     /\ log' = Append(log, "create_failed")
  /\ UNCHANGED <<caller, url, driver_given, fast_result, is_valid_restaurant,
                 home, contact_info, contact_pages, idx, visited, ret>>

\* Lines 424-441 and 541-551: the render; a fault of driver.get or of
\* page_source reaches the outer except clause.
RenderedFetch ==
  /\ UNCHANGED <<svars, fvars, uvars>>
  /\ pc = "render"
  /\ \E rendered \in Pages(caller) \cup {"fault"} :
       IF rendered = "fault"
         THEN /\ ret' = NotValidResult(url)
              /\ log' = Finally(Append(log, "render_fault"))
              /\ pc' = "returned"
              /\ home' = home
         ELSE /\ home' = rendered
              /\ log' = Append(log, "render")
              /\ pc' = "classify"
              /\ ret' = ret
  /\ UNCHANGED <<caller, url, driver_given, close_driver, fast_result,
                 is_valid_restaurant, contact_info, contact_pages, idx, visited>>

\* Lines 443-456: the classification gate.
Classify ==
  /\ UNCHANGED <<svars, fvars, uvars>>
  /\ pc = "classify"
  /\ \E answer \in Answers(caller) :
       LET verdict == validate_restaurant_website(answer)
       IN  /\ is_valid_restaurant' = verdict
           /\ IF GateCloses(verdict)
                THEN /\ ret' = NotValidResult(url)
                     /\ log' = Finally(Append(log, "classify"))
                     /\ pc' = "returned"
                ELSE /\ ret' = ret
                     /\ log' = Append(log, "classify")
                     /\ pc' = "ai"
  /\ UNCHANGED <<caller, url, driver_given, close_driver, fast_result, home,
                 contact_info, contact_pages, idx, visited>>

\* Lines 458-473: AI extraction on the home page.
AIExtract ==
  /\ UNCHANGED <<svars, fvars, uvars>>
  /\ pc = "ai"
  /\ \E response \in Responses(caller) :
       contact_info' =
         HomeRecord(extract_contacts_with_ai(response), PageOf[home].title, url)
  /\ log' = Append(log, "ai")
  /\ pc' = "fallback"
  /\ UNCHANGED <<caller, url, driver_given, close_driver, fast_result,
                 is_valid_restaurant, home, contact_pages, idx, visited, ret>>

\* Lines 475-493 and 536-539: the deterministic fallback on the home page,
\* then either the return or the discovery of the contact pages.
DeterministicFallback ==
  /\ UNCHANGED <<svars, fvars, uvars>>
  /\ pc = "fallback"
  /\ LET needed == NeedsTraditional(contact_info)
         ci == IF needed THEN MergeTraditional(contact_info, ExtractedFrom[home])
               ELSE contact_info
         l == IF needed THEN Append(log, "pattern") ELSE log
         found == find_contact_pages(PageOf[home], url)
     IN  /\ contact_info' = ci
         /\ IF ~CrawlNeeded(ci)
              THEN /\ ReturnRecord(ci, l)
                   /\ UNCHANGED <<contact_pages, idx>>
              ELSE /\ contact_pages' = found
                   /\ idx' = 1
                   /\ IF Take(found, MaxVisits) = <<>>
                        THEN ReturnRecord(ci, Append(l, "discover"))
                        ELSE /\ log' = Append(l, "discover")
                             /\ pc' = "crawl"
                             /\ ret' = ret
  /\ UNCHANGED <<caller, url, driver_given, close_driver, fast_result,
                 is_valid_restaurant, home, visited>>

\* A pass that asks the AI extraction again for the page it rendered.
VisitCallsRepeated(rendered, needed) ==
  IF rendered = "fault" THEN <<"visit_fault">>
  ELSE IF needed THEN <<"visit", "ai", "ai", "pattern">>
  ELSE <<"visit", "ai", "ai">>

\* Lines 496-519: the external calls of one pass: the render (a fault of it
\* ends the pass), the AI extraction, and the pattern extraction when the
\* email or the phone is still missing.
VisitCalls(rendered, needed) ==
  IF rendered = "fault" THEN <<"visit_fault">>
  ELSE IF needed THEN <<"visit", "ai", "pattern">>
  ELSE <<"visit", "ai">>

\* Lines 494-534: one pass of the loop over contact_pages[:5]; a fault of
\* the visit is caught and the loop continues.
VisitContactPage ==
  /\ UNCHANGED <<svars, fvars, uvars>>
  /\ pc = "crawl"
  /\ idx <= Len(ToVisit)
  /\ \E rendered \in Pages(caller) \cup {"fault"}, response \in Responses(caller) :
       LET after_ai == MergeContactAI(contact_info, extract_contacts_with_ai(response))
           needed == NeedsTraditional(after_ai)
           ci == IF rendered = "fault" THEN contact_info
                 ELSE IF needed THEN MergeTraditional(after_ai, ExtractedFrom[rendered])
                 ELSE after_ai
           l == log \o VisitCalls(rendered, needed)
           both == rendered # "fault" /\ FoundBoth(ci)
       IN  /\ contact_info' = ci
           /\ IF both \/ idx = Len(ToVisit)
                THEN ReturnRecord(ci, l)
                ELSE /\ log' = l
                     /\ pc' = "crawl"
                     /\ ret' = ret
  /\ visited' = Append(visited, ToVisit[idx])
  /\ idx' = idx + 1
  /\ UNCHANGED <<caller, url, driver_given, close_driver, fast_result,
                 is_valid_restaurant, home, contact_pages>>

PipelineStep ==
  \/ FastAttempt
  \/ InitDriver
  \/ RenderedFetch
  \/ Classify
  \/ AIExtract
  \/ DeterministicFallback
  \/ VisitContactPage

PipelineState(c, p, u, given) ==
  /\ caller = c
  /\ pc = p
  /\ url = u
  /\ driver_given = given
  /\ close_driver = FALSE
  /\ fast_result = EmptyDict
  /\ is_valid_restaurant = FALSE
  /\ home = "none"
  /\ contact_info = EmptyDict
  /\ contact_pages = <<>>
  /\ idx = 1
  /\ visited = <<>>
  /\ ret = EmptyDict
  /\ log = <<>>

\* The state at the call scrape_single_page(u, driver), and the state when
\* no page is being scraped.
PipelineEntry(c, u, given) == PipelineState(c, "fast", u, given)

PipelineIdle == PipelineState("none", "idle", <<>>, FALSE)

\* ------------------------------------------------------------------------
\* Discovery: search_google_web(search_term)
\* ------------------------------------------------------------------------

\* The substrings that exclude a result (lines 140-154).
excluded_domains ==
  << <<"g","o","o","g","l","e",".","c","o","m">>,
     <<"y","o","u","t","u","b","e",".","c","o","m">>,
     <<"f","a","c","e","b","o","o","k",".","c","o","m">>,
     <<"i","n","s","t","a","g","r","a","m",".","c","o","m">>,
     <<"t","w","i","t","t","e","r",".","c","o","m">>,
     <<"l","i","n","k","e","d","i","n",".","c","o","m">>,
     <<"w","i","k","i","p","e","d","i","a",".","o","r","g">>,
     <<"m","a","p","s",".","g","o","o","g","l","e">>,
     <<"t","r","i","p","a","d","v","i","s","o","r">>,
     <<"z","o","m","a","t","o",".","c","o","m">>,
     <<"s","w","i","g","g","y",".","c","o","m">>,
     <<"q","u","o","r","a",".","c","o","m">>,
     <<"y","e","l","p",".","c","o","m">>,
     <<"j","u","s","t","d","i","a","l",".","c","o","m">>,
     <<"i","n","d","i","a","m","a","r","t",".","c","o","m">>,
     <<"u","r","b","a","n","s","p","o","o","n">>,
     <<"e","a","t","e","r",".","c","o","m">>,
     <<"t","i","m","e","o","u","t",".","c","o","m">>,
     <<"t","h","r","i","l","l","i","s","t",".","c","o","m">>,
     <<"f","o","u","r","s","q","u","a","r","e",".","c","o","m">>,
     <<"p","i","n","t","e","r","e","s","t",".","c","o","m">>,
     <<"r","e","d","d","i","t",".","c","o","m">>,
     <<"m","e","d","i","u","m",".","c","o","m">>,
     <<"b","l","o","g","s","p","o","t",".","c","o","m">>,
     <<"w","o","r","d","p","r","e","s","s",".","c","o","m">>,
     <<"w","i","x","s","i","t","e",".","c","o","m">>,
     <<"s","l","i","d","e","s","h","a","r","e",".","n","e","t">>,
     <<"i","s","s","u","u",".","c","o","m">>,
     <<"w","a","n","d","e","r","l","o","g",".","c","o","m">>,
     <<"t","r","i","p","a","d","v","i","s","o","r",".","i","n">>,
     <<"t","r","i","p","a","d","v","i","s","o","r",".","c","o","m">>,
     <<"e","a","z","y","d","i","n","e","r",".","c","o","m">>,
     <<"d","i","n","e","o","u","t",".","c","o",".","i","n">>,
     <<"o","p","e","n","t","a","b","l","e",".","c","o","m">>,
     <<"r","e","s","y",".","c","o","m">>,
     <<"t","a","b","l","e","a","g","e","n","t",".","c","o","m">>,
     <<"e","a","t","i","g","o",".","c","o","m">>,
     <<"b","o","o","k","a","t","a","b","l","e",".","c","o","m">>,
     <<"m","e","t","h","o","d","i","s","t">>,
     <<"c","o","l","l","e","g","e">>,
     <<"u","n","i","v","e","r","s","i","t","y">>,
     <<"e","d","u">>,
     <<"s","c","h","o","o","l">>,
     <<"e","n","l","i","g","h","t","s","a","g","o">>,
     <<"b","l","o","g">>,
     <<"/","b","l","o","g","/">>,
     <<"n","e","w","s">>,
     <<"a","r","t","i","c","l","e">> >>

\* any(ex in url.lower() for ex in excluded_domains)
Excluded(u) ==
  LET lowered == lower(u)
  IN  \E i \in 1..Len(excluded_domains) : Contains(lowered, excluded_domains[i])

HexDigit == Digit \cup {"a", "b", "c", "d", "e", "f", "A", "B", "C", "D", "E", "F"}

\* The character a percent escape stands for, for the escapes of the
\* characters a URL is made of; another escape is left as it is.
Unescaped(hi, lo) ==
  LET code == <<LowerChar(hi), LowerChar(lo)>>
  IN  CASE code = <<"3", "a">> -> ":"
        [] code = <<"2", "f">> -> "/"
        [] code = <<"3", "f">> -> "?"
        [] code = <<"3", "d">> -> "="
        [] code = <<"2", "6">> -> "&"
        [] code = <<"2", "5">> -> "%"
        [] code = <<"2", "0">> -> " "
        [] OTHER -> "none"

\* urllib.parse.unquote
RECURSIVE unquote(_)
unquote(s) ==
  IF s = <<>> THEN <<>>
  ELSE IF s[1] = "%" /\ Len(s) >= 3 /\ s[2] \in HexDigit /\ s[3] \in HexDigit
          /\ Unescaped(s[2], s[3]) # "none"
    THEN <<Unescaped(s[2], s[3])>> \o unquote(Slice(s, 4, Len(s)))
  ELSE <<s[1]>> \o unquote(Slice(s, 2, Len(s)))

Redirect == <<"/","u","r","l","?","q","=">>

\* href.split('/url?q=')[1].split('&')[0], unquoted
ActualUrl(href) == unquote(SplitFirst(SplitSecond(href, Redirect), <<"&">>))

\* Lines 160-169: a redirect link is kept when its target starts with http
\* and is not excluded.
KeptRedirect(href) ==
  LET actual_url == ActualUrl(href)
  IN  IF startswith(actual_url, <<"h","t","t","p">>) /\ ~Excluded(actual_url)
        THEN actual_url ELSE None

\* Lines 156-176: what a link of the first result page adds to websites
\* (None: nothing).
KeptFirst(href) ==
  IF Contains(href, Redirect) THEN KeptRedirect(href)
  ELSE IF startswith(href, <<"h","t","t","p">>) /\ ~Contains(href, <<"/","u","r","l","?">>) /\ ~Excluded(href)
    THEN href
  ELSE None

\* Lines 197-206: the second result page is read for redirect links only.
KeptSecond(href) ==
  IF Contains(href, Redirect) THEN KeptRedirect(href) ELSE None

CollectCap == 15

MinDirect == 5

ReturnCap == 10

\* Lines 178-184: the unique sites in order, no more than 15 of them.
RECURSIVE UniqueCapped(_)
UniqueCapped(sites) ==
  IF sites = <<>> THEN <<>>
  ELSE LET init == UniqueCapped(SubSeq(sites, 1, Len(sites) - 1))
           site == sites[Len(sites)]
       IN  IF (\A i \in 1..Len(init) : init[i] # site) /\ Len(init) < CollectCap
             THEN Append(init, site) ELSE init

\* Line 187: the second search is made when fewer than 5 sites were found.
NeedsSecondSearchAlways(sites) == TRUE

NeedsSecondSearch(sites) == Len(sites) < MinDirect

\* Every site of the second search is added.
IsNewAlways(site, known) == TRUE

\* Line 207: a site of the second search is added when it is new.
IsNew(site, known) == site \notin known

\* The links a result page is made of.  A page is a run of consecutive
\* links of this list.
RawLinks ==
  << <<"/","s","e","a","r","c","h","?","q","=","c","a","f","e","s">>,
     <<"h","t","t","p","s",":","/","/","m","a","p","s",".","g","o","o","g","l","e",".","c","o","m","/","x">>,
     <<"h","t","t","p","s",":","/","/","a","c","m","e",".","t","e","s","t","/">>,
     <<"h","t","t","p","s",":","/","/","a","c","m","e",".","t","e","s","t">>,
     <<"/","u","r","l","?","q","=","h","t","t","p","s",":","/","/","A","C","M","E",".","t","e","s","t","/","&","s","a","=","U">>,
     <<"/","u","r","l","?","q","=","h","t","t","p","s",":","/","/","w","w","w",".","z","o","m","a","t","o",".","c","o","m","/","a","c","m","e","&","s","a","=","U">>,
     <<"h","t","t","p","s",":","/","/","a","c","m","e",".","t","e","s","t","/">>,
     <<"/","u","r","l","?","q","=","h","t","t","p","s","%","3","A","%","2","F","%","2","F","b","i","s","t","r","o",".","t","e","s","t","%","2","F","m","e","n","u","&","s","a","=","U">>,
     <<"h","t","t","p","s",":","/","/","t","h","e","n","e","w","s","r","o","o","m","c","a","f","e",".","t","e","s","t">>,
     <<"h","t","t","p","s",":","/","/","t",".","c","o","/","u","r","l","?","x">>,
     <<"/","u","r","l","?","q","=","h","t","t","p",":","/","/","a",".","c","o","&","s","a","=","U">>,
     <<"/","u","r","l","?","q","=","h","t","t","p",":","/","/","b",".","c","o","&","s","a","=","U">>,
     <<"/","u","r","l","?","q","=","h","t","t","p",":","/","/","c",".","c","o","&","s","a","=","U">>,
     <<"/","u","r","l","?","q","=","h","t","t","p",":","/","/","d",".","c","o","&","s","a","=","U">>,
     <<"/","u","r","l","?","q","=","h","t","t","p",":","/","/","e",".","c","o","&","s","a","=","U">>,
     <<"/","u","r","l","?","q","=","h","t","t","p",":","/","/","f",".","c","o","&","s","a","=","U">>,
     <<"/","u","r","l","?","q","=","h","t","t","p",":","/","/","g",".","c","o","&","s","a","=","U">>,
     <<"/","u","r","l","?","q","=","h","t","t","p",":","/","/","h",".","c","o","&","s","a","=","U">>,
     <<"/","u","r","l","?","q","=","h","t","t","p",":","/","/","i",".","c","o","&","s","a","=","U">>,
     <<"/","u","r","l","?","q","=","h","t","t","p",":","/","/","j",".","c","o","&","s","a","=","U">>,
     <<"/","u","r","l","?","q","=","h","t","t","p",":","/","/","k",".","c","o","&","s","a","=","U">>,
     <<"/","u","r","l","?","q","=","h","t","t","p",":","/","/","l",".","c","o","&","s","a","=","U">>,
     <<"/","u","r","l","?","q","=","h","t","t","p",":","/","/","m",".","c","o","&","s","a","=","U">>,
     <<"/","u","r","l","?","q","=","h","t","t","p",":","/","/","n",".","c","o","&","s","a","=","U">>,
     <<"/","u","r","l","?","q","=","h","t","t","p",":","/","/","o",".","c","o","&","s","a","=","U">>,
     <<"/","u","r","l","?","q","=","h","t","t","p",":","/","/","p",".","c","o","&","s","a","=","U">>,
     <<"/","u","r","l","?","q","=","h","t","t","p",":","/","/","q",".","c","o","&","s","a","=","U">> >>

\* The longest result page of a search made alone, and of a search made by
\* a flow.
MaxResults == 17

FlowMaxResults == 1

ResultsBound == IF flow = "none" THEN MaxResults ELSE FlowMaxResults

\* Where the first and the second result page may start in RawLinks.
FirstStarts == IF flow = "none" THEN 1..Len(RawLinks) ELSE {3, 9}

SecondStarts == IF flow = "none" THEN {5, 11} ELSE {8}

Elems(seq) == {seq[i] : i \in 1..Len(seq)}

\* The except and finally clauses of search_google_web: a fault anywhere
\* returns the empty list; the driver, when there is one, is quit.
SearchFault(op) ==
  /\ website_urls' = <<>>
  /\ slog' = IF op = "create_failed" THEN Append(slog, op)
             ELSE IF op = "get1_fault" THEN slog \o <<"create", op, "quit">>
             ELSE slog \o <<op, "quit">>
  /\ spc' = "returned"

\* Lines 215-222: return unique_websites[:10].
SearchReturn(sites) ==
  /\ website_urls' = Take(sites, ReturnCap)
  /\ slog' = Append(slog, "quit")
  /\ spc' = "returned"

\* Lines 116-131: the driver and the first result page.
FirstSearch ==
  /\ UNCHANGED <<pvars, fvars, uvars>>
  /\ spc = "start"
  /\ \/ /\ SearchFault("create_failed")
        /\ UNCHANGED cursor
     \/ /\ SearchFault("get1_fault")
        /\ UNCHANGED cursor
     \/ /\ \E from \in FirstStarts : cursor' = from
        /\ slog' = slog \o <<"create", "get1">>
        /\ spc' = "first"
        /\ website_urls' = website_urls
  /\ UNCHANGED <<raw1, raw2, websites, unique_websites, seen>>

\* Lines 156-176: one link of the first result page.
FirstLink ==
  /\ UNCHANGED <<pvars, fvars, uvars>>
  /\ spc = "first"
  /\ cursor <= Len(RawLinks)
  /\ Len(raw1) < ResultsBound
  /\ raw1' = Append(raw1, RawLinks[cursor])
  /\ websites' = IF KeptFirst(RawLinks[cursor]) # None
                   THEN Append(websites, KeptFirst(RawLinks[cursor])) ELSE websites
  /\ cursor' = cursor + 1
  /\ UNCHANGED <<spc, raw2, unique_websites, seen, website_urls, slog>>

\* Lines 178-195: the end of the first result page: the duplicates are
\* removed, and the second search is made or the list is returned.
FirstDone ==
  /\ UNCHANGED <<pvars, fvars, uvars>>
  /\ spc = "first"
  /\ LET sites == UniqueCapped(websites)
     IN  /\ unique_websites' = sites
         /\ seen' = Elems(sites)
         /\ IF NeedsSecondSearch(sites)
              THEN \/ /\ SearchFault("get2_fault")
                      /\ UNCHANGED cursor
                   \/ /\ \E from \in SecondStarts : cursor' = from
                      /\ slog' = Append(slog, "get2")
                      /\ spc' = "second"
                      /\ website_urls' = website_urls
              ELSE /\ SearchReturn(sites)
                   /\ UNCHANGED cursor
  /\ UNCHANGED <<raw1, raw2, websites>>

\* Lines 197-213: one link of the second result page; the loop breaks when
\* 15 sites are collected.
SecondLink ==
  /\ UNCHANGED <<pvars, fvars, uvars>>
  /\ spc = "second"
  /\ cursor <= Len(RawLinks)
  /\ Len(raw2) < ResultsBound
  /\ raw2' = Append(raw2, RawLinks[cursor])
  /\ cursor' = cursor + 1
  /\ LET site == KeptSecond(RawLinks[cursor])
         added == site # None /\ IsNew(site, seen)
         sites == IF added THEN Append(unique_websites, site) ELSE unique_websites
     IN  /\ unique_websites' = sites
         /\ seen' = IF added THEN seen \cup {site} ELSE seen
         /\ IF added /\ Len(sites) >= CollectCap
              THEN SearchReturn(sites)
              ELSE UNCHANGED <<spc, website_urls, slog>>
  /\ UNCHANGED <<raw1, websites>>

\* The end of the second result page.
SecondDone ==
  /\ UNCHANGED <<pvars, fvars, uvars>>
  /\ spc = "second"
  /\ SearchReturn(unique_websites)
  /\ UNCHANGED <<cursor, raw1, raw2, websites, unique_websites, seen>>

SearchState(p) ==
  /\ spc = p
  /\ cursor = 1
  /\ raw1 = <<>>
  /\ raw2 = <<>>
  /\ websites = <<>>
  /\ unique_websites = <<>>
  /\ seen = {}
  /\ website_urls = <<>>
  /\ slog = <<>>

\* The state at the call search_google_web(search_term), and the state when
\* no search is made.
SearchEntry == SearchState("start")

SearchIdle == SearchState("idle")

\* The state of a flow that has not started its loop.
FlowEntry(f, p, list) ==
  /\ flow = f
  /\ fpc = p
  /\ candidates = list
  /\ position = 1
  /\ maps_data = EmptyDict
  /\ results = <<>>
  /\ handed = <<>>
  /\ mapped = <<>>
  /\ faulted = {}

\* No flow is running.
NoFlow == FlowEntry("none", "none", <<>>)

vars == <<pvars, svars, fvars, uvars>>

\* A direct call of scrape_single_page; no search is running.
Init ==
  /\ \E u \in PageUrls, given \in BOOLEAN : PipelineEntry("page", u, given)
  /\ SearchIdle
  /\ NoFlow
  /\ NoCall

Next == PipelineStep

Spec == Init /\ [][Next]_vars

\* The places of scrape_single_page.
Stages ==
  {"fast", "driver", "render", "classify", "ai", "fallback", "crawl", "returned", "raised"}

\* scrape_single_page is one thread of sequential code: as long as it has
\* neither returned nor raised, and every external call returns or faults,
\* control moves on, to another place or to the next pass of the loop over
\* contact_pages[:5].
Advance ==
  /\ pc \notin {"returned", "raised"}
  /\ \E p \in Stages, i \in {idx, idx + 1} :
       pc' = p /\ idx' = i /\ <<p, i>> # <<pc, idx>>

LiveSpec == Init /\ [][Next]_vars /\ WF_<<pc, idx>>(Advance)

\* A call of search_google_web; no page is being scraped.
SearchInit ==
  /\ SearchEntry
  /\ PipelineIdle
  /\ NoFlow
  /\ NoCall

SearchNext ==
  \/ FirstSearch
  \/ FirstLink
  \/ FirstDone
  \/ SecondLink
  \/ SecondDone

SearchSpec == SearchInit /\ [][SearchNext]_vars

\* ------------------------------------------------------------------------
\* Discovery flows
\* ------------------------------------------------------------------------

\* The call scrape_single_page(u) made by a flow.
PipelineCall(c, u) ==
  /\ caller' = c
  /\ pc' = "fast"
  /\ url' = u
  /\ driver_given' = FALSE
  /\ close_driver' = FALSE
  /\ fast_result' = EmptyDict
  /\ is_valid_restaurant' = FALSE
  /\ home' = "none"
  /\ contact_info' = EmptyDict
  /\ contact_pages' = <<>>
  /\ idx' = 1
  /\ visited' = <<>>
  /\ ret' = EmptyDict
  /\ log' = <<>>

\* Lines 871-873 and 784-785: after a fault on the entry at place i the loop
\* goes on with the next entry.
AfterFaultStops(i) == Len(candidates) + 1

AfterFault(i) == i + 1

\* The record is appended for an email or a phone, named or not.
SearchResultUnnamed(website_data, website_url) ==
  LET business_name == Get(website_data, "business_name")
      email == Get(website_data, "email")
      phone == Get(website_data, "phone")
  IN  IF "is_valid" \in DOMAIN website_data /\ website_data.is_valid = FALSE THEN <<>>
      ELSE IF Truthy(email) \/ Truthy(phone)
        THEN << [business_name |-> business_name,
                 email |-> email,
                 phone |-> phone,
                 website |-> website_url,
                 source_url |-> website_url] >>
      ELSE <<>>

\* Lines 839-867: what the search flow appends for a returned record.
SearchResult(website_data, website_url) ==
  LET business_name == Get(website_data, "business_name")
      email == Get(website_data, "email")
      phone == Get(website_data, "phone")
  IN  IF "is_valid" \in DOMAIN website_data /\ website_data.is_valid = FALSE THEN <<>>
      ELSE IF Truthy(business_name) /\ (Truthy(email) \/ Truthy(phone))
        THEN << [business_name |-> business_name,
                 email |-> email,
                 phone |-> phone,
                 website |-> website_url,
                 source_url |-> website_url] >>
      ELSE <<>>

\* The loop of a flow moves to the entry at place next: the flow returns
\* when there is none.
SearchLoop(next) ==
  /\ position' = next
  /\ IF next > Len(candidates')
       THEN /\ fpc' = "done"
            /\ UNCHANGED <<pvars, handed>>
       ELSE /\ fpc' = "page"
            /\ handed' = Append(handed, next)
            /\ PipelineCall("search", candidates'[next])

\* Lines 821-829: the search has returned; nothing found returns the empty
\* list, otherwise the loop starts.
SearchFlowStart ==
  /\ flow = "search"
  /\ fpc = "search"
  /\ spc = "returned"
  /\ candidates' = website_urls
  /\ results' = <<>>
  /\ SearchLoop(1)
  /\ UNCHANGED <<flow, maps_data, mapped, faulted, svars, uvars>>

\* Lines 832-873: scrape_single_page has returned or raised for the entry
\* at position.
SearchFlowNext ==
  /\ flow = "search"
  /\ fpc = "page"
  /\ pc \in {"returned", "raised"}
  /\ candidates' = candidates
  /\ IF pc = "raised"
       THEN /\ results' = results
            /\ faulted' = faulted \cup {position}
            /\ SearchLoop(AfterFault(position))
       ELSE /\ results' = results \o SearchResult(ret, candidates[position])
            /\ faulted' = faulted
            /\ SearchLoop(position + 1)
  /\ UNCHANGED <<flow, maps_data, mapped, svars, uvars>>

\* What the maps page shows: the text of its h1 (None: no h1), what
\* re.findall gives for the phone pattern (the text of its one group) and
\* the hrefs of its links.
MapsPageOf ==
  [listing |-> [h1 |-> <<" ","A","c","m","e"," ","B","i","s","t","r","o"," ">>,
                phones |-> << <<"+","9","1","-">>, <<>> >>,
                links |-> << <<"h","t","t","p","s",":","/","/","w","w","w",".","g","o","o","g","l","e",".","c","o","m","/","i","n","t","l">>, <<"/","m","a","p","s","/","a","b","o","u","t">>,
                             <<"h","t","t","p","s",":","/","/","t","w","i","t","t","e","r",".","c","o","m","/","a","c","m","e">>, <<"h","t","t","p","s",":","/","/","a","c","m","e",".","t","e","s","t">>,
                             <<"h","t","t","p","s",":","/","/","o","t","h","e","r",".","t","e","s","t">> >>],
   bare |-> [h1 |-> None,
             phones |-> <<>>,
             links |-> << <<"h","t","t","p","s",":","/","/","m","a","p","s",".","g","o","o","g","l","e",".","c","o","m","/","x">>, <<"h","t","t","p","s",":","/","/","f","a","c","e","b","o","o","k",".","c","o","m","/","a","c","m","e">>,
                          <<"h","t","t","p","s",":","/","/","w","w","w",".","i","n","s","t","a","g","r","a","m",".","c","o","m","/","a","c","m","e">>, <<"h","t","t","p","s",":","/","/","y","o","u","t","u","b","e",".","c","o","m","/","c">> >>]]

\* Lines 340-345: a link that is taken for the business website.
IsWebsiteLink(href) ==
  /\ startswith(href, <<"h","t","t","p">>)
  /\ ~Contains(href, <<"g","o","o","g","l","e",".","c","o","m">>)
  /\ ~Contains(href, <<"f","a","c","e","b","o","o","k",".","c","o","m">>)
  /\ ~Contains(href, <<"i","n","s","t","a","g","r","a","m",".","c","o","m">>)
  /\ ~Contains(href, <<"t","w","i","t","t","e","r",".","c","o","m">>)
  /\ ~Contains(href, <<"y","o","u","t","u","b","e",".","c","o","m">>)

\* scrape_google_maps_page(maps_url), for what the browser gave: "fault",
\* or the name of a page.
scrape_google_maps_page(shown, maps_url) ==
  IF shown = "fault"
    THEN [business_name |-> None, phone |-> None, website |-> None, maps_url |-> maps_url]
  ELSE LET page == MapsPageOf[shown]
           at == FirstIndex(page.links, IsWebsiteLink)
       IN  [business_name |-> IF Truthy(page.h1) THEN strip(page.h1) ELSE None,
            phone |-> IF page.phones # <<>> THEN page.phones[1] ELSE None,
            website |-> IF at = 0 THEN None ELSE page.links[at],
            maps_url |-> maps_url]

\* A record that leaves out the email when there is none.
MapsResultOmitting(data, email, phone_from_website) ==
  IF Truthy(email)
    THEN [business_name |-> data.business_name,
          email |-> email,
          phone |-> IF Truthy(phone_from_website) THEN phone_from_website ELSE data.phone,
          website |-> data.website,
          source_url |-> data.maps_url]
    ELSE [business_name |-> data.business_name,
          phone |-> IF Truthy(phone_from_website) THEN phone_from_website ELSE data.phone,
          website |-> data.website,
          source_url |-> data.maps_url]

\* Lines 788-797: the record the maps flow appends.
MapsResult(data, email, phone_from_website) ==
  [business_name |-> data.business_name,
   email |-> email,
   phone |-> IF Truthy(phone_from_website) THEN phone_from_website ELSE data.phone,
   website |-> data.website,
   source_url |-> data.maps_url]

\* Lines 762-781: the maps page of the entry at position is scraped; a
\* website found there is given to scrape_single_page, and without one the
\* record is appended at once.
MapsFlowNext ==
  /\ flow = "maps"
  /\ fpc = "maps"
  /\ position <= Len(candidates)
  /\ mapped' = Append(mapped, position)
  /\ \E shown \in DOMAIN MapsPageOf \cup {"fault"} :
       LET data == scrape_google_maps_page(shown, candidates[position])
       IN  /\ maps_data' = data
           /\ faulted' = IF shown = "fault" THEN faulted \cup {position} ELSE faulted
           /\ IF Truthy(data.website)
                THEN /\ handed' = Append(handed, position)
                     /\ PipelineCall("maps", data.website)
                     /\ fpc' = "page"
                     /\ UNCHANGED <<position, results>>
                ELSE /\ results' = Append(results, MapsResult(data, None, None))
                     /\ position' = position + 1
                     /\ fpc' = IF position + 1 > Len(candidates) THEN "done" ELSE "maps"
                     /\ UNCHANGED <<pvars, handed>>
  /\ UNCHANGED <<flow, candidates, svars, uvars>>

\* Lines 781-801: scrape_single_page has returned or raised for the website
\* of the entry at position; the record of the entry is appended.
MapsFlowSite ==
  /\ flow = "maps"
  /\ fpc = "page"
  /\ pc \in {"returned", "raised"}
  /\ LET next == IF pc = "raised" THEN AfterFault(position) ELSE position + 1
     IN  /\ results' = Append(results,
                          IF pc = "raised" THEN MapsResult(maps_data, None, None)
                          ELSE MapsResult(maps_data, Get(ret, "email"), Get(ret, "phone")))
         /\ position' = next
         /\ faulted' = IF pc = "raised" THEN faulted \cup {position} ELSE faulted
         /\ fpc' = IF next > Len(candidates) THEN "done" ELSE "maps"
  /\ UNCHANGED <<flow, candidates, maps_data, handed, mapped, pvars, svars, uvars>>

\* The longest maps_urls_list.
MaxCandidates == 2

\* The maps URLs a maps_urls_list is made of: a list is a run of this list
\* from its start, and may hold the same URL twice.
MapsUrls ==
  << <<"h","t","t","p","s",":","/","/","m","a","p","s",".","g","o","o","g","l","e",".","c","o","m","/","?","c","i","d","=","1">>,
     <<"h","t","t","p","s",":","/","/","m","a","p","s",".","g","o","o","g","l","e",".","c","o","m","/","?","c","i","d","=","2">>,
     <<"h","t","t","p","s",":","/","/","m","a","p","s",".","g","o","o","g","l","e",".","c","o","m","/","?","c","i","d","=","1">>,
     <<"h","t","t","p","s",":","/","/","m","a","p","s",".","g","o","o","g","l","e",".","c","o","m","/","?","c","i","d","=","3">> >>

MapsLists ==
  { SubSeq(MapsUrls, 1, n) : n \in 0..(IF MaxCandidates < Len(MapsUrls) THEN MaxCandidates ELSE Len(MapsUrls)) }

\* A call of scrape_google_search_results, or a call of scrape_all_results
\* with a list of maps URLs.
FlowInit ==
  /\ PipelineIdle
  /\ NoCall
  /\ \/ /\ FlowEntry("search", "search", <<>>)
        /\ SearchEntry
     \/ /\ \E list \in MapsLists :
             FlowEntry("maps", IF list = <<>> THEN "done" ELSE "maps", list)
        /\ SearchIdle

FlowNext ==
  \/ FirstSearch
  \/ FirstLink
  \/ FirstDone
  \/ SecondLink
  \/ SecondDone
  \/ FastAttempt
  \/ InitDriver
  \/ RenderedFetch
  \/ Classify
  \/ AIExtract
  \/ DeterministicFallback
  \/ VisitContactPage
  \/ SearchFlowStart
  \/ SearchFlowNext
  \/ MapsFlowNext
  \/ MapsFlowSite

FlowSpec == FlowInit /\ [][FlowNext]_vars

\* ------------------------------------------------------------------------
\* Direct calls of the Aggregator/Domain Filter, the Contact Validator and
\* the Pattern Extractor
\* ------------------------------------------------------------------------

\* Line 168: the test a search result passes.
AcceptedBySearch(u) == startswith(u, <<"h","t","t","p">>) /\ ~Excluded(u)

\* The URLs the two filters are asked about.
FilterUrls ==
  { <<"h","t","t","p","s",":","/","/","a","c","m","e",".","t","e","s","t">>,
    <<"h","t","t","p","s",":","/","/","a","c","m","e",".","t","e","s","t","/","n","e","w","s","/","o","p","e","n","i","n","g">>,
    <<"h","t","t","p","s",":","/","/","a","c","m","e",".","t","e","s","t","/","b","l","o","g","/">>,
    <<"h","t","t","p","s",":","/","/","t","h","e","n","e","w","s","r","o","o","m","c","a","f","e",".","t","e","s","t">>,
    <<"h","t","t","p","s",":","/","/","w","w","w",".","z","o","m","a","t","o",".","c","o","m","/","a","c","m","e">>,
    <<"h","t","t","p","s",":","/","/","w","w","w",".","z","o","m","a","t","o",".","c","o","m","/">>,
    <<"h","t","t","p","s",":","/","/","w","w","w",".","y","e","l","p",".","c","o","m","/","b","i","z","/","a","c","m","e">>,
    <<"h","t","t","p","s",":","/","/","w","w","w",".","f","a","c","e","b","o","o","k",".","c","o","m","/","a","c","m","e">>,
    <<"h","t","t","p","s",":","/","/","w","w","w",".","F","A","C","E","B","O","O","K",".","c","o","m","/","a","c","m","e">>,
    <<"h","t","t","p","s",":","/","/","m","a","p","s",".","g","o","o","g","l","e",".","c","o","m","/","x">>,
    <<"h","t","t","p","s",":","/","/","w","w","w",".","y","o","u","t","u","b","e",".","c","o","m","/","c","/","a","c","m","e">>,
    <<"h","t","t","p",":","/","/","a",".","c","o">>,
    <<"/","m","a","p","s","/","a","b","o","u","t">> }

\* The state at the call of function f with argument a.
CallEntry(f, a) ==
  /\ fn = f
  /\ arg = a
  /\ out = <<>>

\* The search filter (lines 168, 175) and the maps filter (lines 340-345)
\* are asked about the same URL.
CallFilters ==
  /\ fn = "filter"
  /\ out = <<>>
  /\ out' = << [search |-> AcceptedBySearch(arg), maps |-> IsWebsiteLink(arg)] >>
  /\ UNCHANGED <<fn, arg, pvars, svars, fvars>>

\* The local parts and the domains the addresses given to is_valid_email
\* are made of.
EmailLocals ==
  { <<"i","n","f","o">>, <<"c","o","n","t","a","c","t">>, <<"t","e","s","t">>, <<"H","e","l","l","o">>, <<"a","-","b","-","c">>, <<"a","-","b","-","c","-","d","-","e">>, <<"a","_","b","_","c","_","d","_","e">>,
    <<"a","b","c","1","2","3","x","y","z","4","5","6">>, <<"a",".","b",".","c",".","d">>, <<"1","i","n","f","o">>, <<"i","n"," ","f","o">>, <<"x","%","y","+","z">> }

LongLabel(n) == [i \in 1..n |-> "a"]

EmailDomains ==
  { <<"a","c","m","e",".","t","e","s","t">>, <<"e","x","a","m","p","l","e",".","c","o","m">>, <<"z","o","m","a","t","o",".","c","o","m">>, <<"b","l","u","e","f","i","n","r","e","s","t","a","u","r","a","n","t",".","c","o","m">>,
    <<"m","y","-","o","w","n","-","c","a","f","e",".","t","e","s","t">>, <<"a","-","b","-","c","-","d","-","e",".","t","e","s","t">>, <<"a","c","m","e",".","c">>, <<"a","c","m","e",".","c","0","m">>, <<"a","c","m","e">>,
    <<"2","x",".","p","n","g">>, <<"A","c","m","e",".","T","e","s","t"," ">>,
    LongLabel(90) \o <<".","t","e","s","t">>, LongLabel(91) \o <<".","t","e","s","t">> }

EmailInputs ==
  { l \o <<"@">> \o d : l \in EmailLocals, d \in EmailDomains }
    \cup { None, <<>>, <<"i","n","f","o",".","a","c","m","e",".","t","e","s","t">>, <<"@","a","c","m","e",".","t","e","s","t">>, <<" ","I","n","f","o","@","A","c","m","e",".","T","e","s","t">> }

\* is_valid_email(arg) is called.
CallValidator ==
  /\ fn = "is_valid_email"
  /\ out = <<>>
  /\ out' = << is_valid_email_call(arg) >>
  /\ UNCHANGED <<fn, arg, pvars, svars, fvars>>

\* The markups the Pattern Extractor is called on: every choice of a mailto
\* link, a data-email attribute, a contact section, a tel: link and a text,
\* and the pages of the pipeline.
ExtractorMailtos == { <<>>, << <<"m","a","i","l","t","o",":","H","e","l","l","o","@","A","c","m","e",".","t","e","s","t">> >>, << <<"m","a","i","l","t","o",":","x","@","e","x","a","m","p","l","e",".","c","o","m">> >> }

ExtractorAttributes == { <<>>, << <<"o","w","n","e","r","@","c","a","f","e",".","t","e","s","t">> >> }

ExtractorSections == { <<>>, << <<"h","i","@","c","a","f","e","u","n","o",".","i","n">> >>, << <<"w","h","a","t","s","a","p","p",":"," ","1","2","3","4","5">> >> }

ExtractorTels == { <<>>, << <<"t","e","l",":","1","2","3","4","5">> >>, << <<"t","e","l",":","+","1","-","5","5","5","-","1","2","3","-","4","5","6","7">> >> }

ExtractorTexts ==
  { <<>>,
    <<"i","n","f","o"," ","[","a","t","]"," ","a","c","m","e"," ","[","d","o","t","]"," ","c","o","m">>,
    <<"i","n","f","o"," ","(","@",")"," ","a","c","m","e"," ","(",".",")"," ","c","o","m">>,
    <<"x","@","e","x","a","m","p","l","e",".","c","o","m",","," ","i","n","f","o"," ","@"," ","a","c","m","e"," ","."," ","c","o","m">>,
    <<"b","o","b","@","b","i","s","t","r","o",".","i","n"," ","I","n","f","o","@","B","i","s","t","r","o",".","i","n">>,
    <<"c","a","l","l"," ","9","8","7","-","6","5","4","-","3","2","1","0">>,
    <<"w","h","a","t","s","a","p","p",":"," ","1","2","3","4","5">> }

ExtractorInputs ==
  { [NoMarkup EXCEPT !.mailto = a, !.data_email = d, !.sections = s, !.tel = t, !.body = b] :
      a \in ExtractorMailtos, d \in ExtractorAttributes, s \in ExtractorSections,
      t \in ExtractorTels, b \in ExtractorTexts }
  \cup {MarkupOf[name] : name \in DOMAIN MarkupOf}

\* extract_contact_info_from_website(page_source) called on a markup
CallExtractor ==
  /\ fn = "extract"
  /\ out = <<>>
  /\ out' = << extract_contact_info_from_website(Parsed(arg)) >>
  /\ UNCHANGED <<fn, arg, pvars, svars, fvars>>

\* The link lists and base URLs find_contact_pages is called on: the links
\* of the pipeline's pages, a list with a fragment, a query, another case of
\* the host, a network-relative link and a mailto link, and their prefixes.
MixedLinks ==
  << [href |-> <<"#","c","o","n","t","a","c","t">>, text |-> <<"C","o","n","t","a","c","t">>],
     [href |-> <<"h","t","t","p","s",":","/","/","A","C","M","E",".","t","e","s","t","/","c","o","n","t","a","c","t">>, text |-> <<"W","r","i","t","e"," ","t","o"," ","u","s">>],
     [href |-> <<"/","/","a","c","m","e",".","t","e","s","t","/","a","b","o","u","t">>, text |-> <<"S","t","o","r","y">>],
     [href |-> <<"m","a","i","l","t","o",":","c","o","n","t","a","c","t","@","a","c","m","e",".","t","e","s","t">>, text |-> <<"E","m","a","i","l">>],
     [href |-> <<"?","p","a","g","e","=","t","e","a","m">>, text |-> <<" ","A","b","o","u","t"," ","t","h","e"," ","t","e","a","m"," ">>],
     [href |-> <<"/","s","h","o","p">>, text |-> <<"S","h","o","p">>],
     [href |-> <<"#","c","o","n","t","a","c","t">>, text |-> <<"R","e","a","c","h"," ","u","s">>],
     [href |-> <<"s","u","p","p","o","r","t","/">>, text |-> <<"H","e","l","p">>] >>

DiscovererLinks ==
  { Take(l, n) : l \in {MailtoMarkup.links, TelMarkup.links, MixedLinks}, n \in 0..8 }

DiscovererBases ==
  { <<"h","t","t","p","s",":","/","/","a","c","m","e",".","t","e","s","t">>, <<"h","t","t","p","s",":","/","/","a","c","m","e",".","t","e","s","t","/","m","e","n","u","/","i","n","d","e","x",".","h","t","m","l","?","x","=","1">>, <<"h","t","t","p",":","/","/","b","i","s","t","r","o",".","t","e","s","t",":","8","0","8","0","/">>,
    <<"h","t","t","p","s",":","/","/","o","t","h","e","r",".","t","e","s","t","/">> }

DiscovererInputs == { [links |-> l, base_url |-> b] : l \in DiscovererLinks, b \in DiscovererBases }

\* find_contact_pages(soup, base_url) called on a list of links
CallDiscoverer ==
  /\ fn = "find_contact_pages"
  /\ out = <<>>
  /\ out' = << find_contact_pages(arg, arg.base_url) >>
  /\ UNCHANGED <<fn, arg, pvars, svars, fvars>>

\* ------------------------------------------------------------------------
\* Inference Adapter called directly: the request and what is made of the
\* service's reply.  A reply is a fault of the request, or a message whose
\* content is a text or None.
\* ------------------------------------------------------------------------

\* The texts the inference service answers an extraction request with.
ReplyTexts ==
  { <<"n","o","t"," ","j","s","o","n">>,
    <<>>,
    <<"[","1",","," ","2","]">>,
    <<"\"","i","n","f","o","@","a","c","m","e",".","t","e","s","t","\"">>,
    <<"n","u","l","l">>,
    <<"{","\"","e","m","a","i","l","\"",":"," ","\"","c","h","e","f","@","b","i","s","t","r","o",".","i","n","\"",","," ","\"","p","h","o","n","e","\"",":"," ","n","u","l","l",","," ","\"","b","u","s","i","n","e","s","s","_","n","a","m","e","\"",":"," ","\"","B","i","s","t","r","o","\"",","," ","\"","i","s","_","r","e","s","t","a","u","r","a","n","t","\"",":"," ","t","r","u","e","}">>,
    <<" ","{","\"","e","m","a","i","l","\"",":"," ","\"","c","h","e","f","@","b","i","s","t","r","o",".","i","n","\"",","," ","\"","p","h","o","n","e","\"",":"," ","n","u","l","l",","," ","\"","b","u","s","i","n","e","s","s","_","n","a","m","e","\"",":"," ","\"","B","i","s","t","r","o","\"",","," ","\"","i","s","_","r","e","s","t","a","u","r","a","n","t","\"",":"," ","t","r","u","e","}","\n">>,
    <<"GRAVE","GRAVE","GRAVE","j","s","o","n","\n","{","\"","e","m","a","i","l","\"",":"," ","\"","c","h","e","f","@","b","i","s","t","r","o",".","i","n","\"",","," ","\"","p","h","o","n","e","\"",":"," ","n","u","l","l",","," ","\"","b","u","s","i","n","e","s","s","_","n","a","m","e","\"",":"," ","\"","B","i","s","t","r","o","\"",","," ","\"","i","s","_","r","e","s","t","a","u","r","a","n","t","\"",":"," ","t","r","u","e","}","\n","GRAVE","GRAVE","GRAVE">>,
    <<"GRAVE","GRAVE","GRAVE","\n","{","\"","i","s","_","r","e","s","t","a","u","r","a","n","t","\"",":"," ","f","a","l","s","e","}","\n","GRAVE","GRAVE","GRAVE">>,
    <<"GRAVE","GRAVE","GRAVE">>,
    <<"GRAVE","GRAVE","GRAVE","j","s","o","n","{","\"","e","m","a","i","l","\"",":"," ","n","u","l","l","}">>,
    <<"H","e","r","e"," ","i","t"," ","i","s",":"," ","GRAVE","GRAVE","GRAVE","j","s","o","n","\n","{","\"","e","m","a","i","l","\"",":"," ","\"","c","h","e","f","@","b","i","s","t","r","o",".","i","n","\"",","," ","\"","p","h","o","n","e","\"",":"," ","n","u","l","l",","," ","\"","b","u","s","i","n","e","s","s","_","n","a","m","e","\"",":"," ","\"","B","i","s","t","r","o","\"",","," ","\"","i","s","_","r","e","s","t","a","u","r","a","n","t","\"",":"," ","t","r","u","e","}","\n","GRAVE","GRAVE","GRAVE">>,
    <<"{","\"","e","m","a","i","l","\"",":"," ","\"","c","h","e","f","@","b","i","s","t","r","o",".","i","n","\"",","," ","\"","p","h","o","n","e","\"",":"," ","n","u","l","l",","," ","\"","b","u","s","i","n","e","s","s","_","n","a","m","e","\"",":"," ","\"","B","i","s","t","r","o","\"",","," ","\"","i","s","_","r","e","s","t","a","u","r","a","n","t","\"",":"," ","t","r","u","e","}"," ","d","o","n","e">>,
    <<"{","}">>,
    <<"{","\"","e","m","a","i","l","\"",":"," ","\"","i","n","f","o","@","e","x","a","m","p","l","e",".","c","o","m","\"",","," ","\"","i","s","_","r","e","s","t","a","u","r","a","n","t","\"",":"," ","n","u","l","l","}">> }

\* json.loads on the texts it accepts among those the adapter gives it: the
\* value read, an object with its keys (a JSON null is None) or something
\* that is no object.  On every other text json.loads raises JSONDecodeError.
JsonValues ==
  << << <<"[","1",","," ","2","]">>,
        [kind |-> "nonobject"] >>,
     << <<"\"","i","n","f","o","@","a","c","m","e",".","t","e","s","t","\"">>,
        [kind |-> "nonobject"] >>,
     << <<"n","u","l","l">>,
        [kind |-> "nonobject"] >>,
     << <<"{","\"","e","m","a","i","l","\"",":"," ","\"","c","h","e","f","@","b","i","s","t","r","o",".","i","n","\"",","," ","\"","p","h","o","n","e","\"",":"," ","n","u","l","l",","," ","\"","b","u","s","i","n","e","s","s","_","n","a","m","e","\"",":"," ","\"","B","i","s","t","r","o","\"",","," ","\"","i","s","_","r","e","s","t","a","u","r","a","n","t","\"",":"," ","t","r","u","e","}">>,
        [kind |-> "object",
        obj |-> [k \in {"email", "phone", "business_name", "is_restaurant"} |->
                   CASE k = "email" -> <<"c","h","e","f","@","b","i","s","t","r","o",".","i","n">>
                    [] k = "phone" -> None
                    [] k = "business_name" -> <<"B","i","s","t","r","o">>
                    [] k = "is_restaurant" -> TRUE]] >>,
     << <<"{","\"","i","s","_","r","e","s","t","a","u","r","a","n","t","\"",":"," ","f","a","l","s","e","}">>,
        [kind |-> "object",
        obj |-> [k \in {"is_restaurant"} |->
                   FALSE]] >>,
     << <<"{","\"","e","m","a","i","l","\"",":"," ","n","u","l","l","}">>,
        [kind |-> "object",
        obj |-> [k \in {"email"} |->
                   None]] >>,
     << <<"{","}">>,
        [kind |-> "object", obj |-> EmptyDict] >>,
     << <<"{","\"","e","m","a","i","l","\"",":"," ","\"","i","n","f","o","@","e","x","a","m","p","l","e",".","c","o","m","\"",","," ","\"","i","s","_","r","e","s","t","a","u","r","a","n","t","\"",":"," ","n","u","l","l","}">>,
        [kind |-> "object",
        obj |-> [k \in {"email", "is_restaurant"} |->
                   CASE k = "email" -> <<"i","n","f","o","@","e","x","a","m","p","l","e",".","c","o","m">>
                    [] k = "is_restaurant" -> None]] >> >>

json_loads(text) ==
  LET at == {i \in 1..Len(JsonValues) : JsonValues[i][1] = text}
  IN  IF at = {} THEN [kind |-> "malformed"] ELSE JsonValues[CHOOSE i \in at : TRUE][2]

\* Lines 78-85 (the grave accent, the character of a code fence, is written
\* "GRAVE" in the texts): the content stripped, and of a content that starts with a
\* code fence the part up to the next fence, without a leading "json",
\* stripped.
Unfenced(content) ==
  LET fence == <<"GRAVE","GRAVE","GRAVE">>
      result_text == strip(content)
      inner == SplitSecond(result_text, fence)
  IN  IF ~startswith(result_text, fence) THEN result_text
      ELSE IF startswith(inner, <<"j","s","o","n">>) THEN strip(Slice(inner, 5, Len(inner)))
      ELSE strip(inner)

ExtractReplies ==
  { [kind |-> "fault"], [kind |-> "message", content |-> None] }
    \cup { [kind |-> "message", content |-> t] : t \in ReplyTexts }

\* What the body of extract_contacts_with_ai comes to on a reply: the object
\* read, or the exception raised in it ("fault": by the request, or by
\* .strip() on a content that is None; "malformed": JSONDecodeError;
\* "nonobject": by .get on a value that is no dict).
ResponseOf(reply) ==
  IF reply.kind = "fault" \/ reply.content = None THEN [kind |-> "fault"]
  ELSE json_loads(Unfenced(reply.content))

\* The handler of json.JSONDecodeError alone.
HandlesDecodeErrorOnly(kind) == kind \in {"malformed"}

\* Whether a handler of the try of the function catches the exception: there
\* is one for json.JSONDecodeError (97) and one for Exception (100).
Handles(kind) == kind \in {"malformed"} \cup {"fault", "nonobject"}

\* A call of extract_contacts_with_ai ends by returning a dict or by raising.
extract_contacts_call(response) ==
  IF response.kind = "object" \/ Handles(response.kind)
    THEN [raised |-> "", returned |-> extract_contacts_with_ai(response)]
    ELSE [raised |-> response.kind]

\* As many further requests as max_retries says.
RetriesAsGiven(max_retries) == max_retries

\* The requests the function makes again after a fault of the service:
\* max_retries is a parameter (18) that the body never reads.
Retries(max_retries) == 0

\* The requests made so far in the call, and whether it has ended.
RequestsMade == Cardinality({i \in 1..Len(out) : "reply" \in DOMAIN out[i]})

Ended == out # <<>> /\ "raised" \in DOMAIN out[Len(out)]

\* page_content is None: len(page_content) at 32 raises before any request.
NoContent == arg.page_content = None

MayRequest ==
  /\ ~Ended
  /\ ~NoContent
  /\ IF out = <<>> THEN TRUE
     ELSE out[Len(out)].reply.kind = "fault" /\ RequestsMade < 1 + Retries(arg.max_retries)

\* Lines 68-76: client.chat.completions.create, and the service's reply.
ExtractRequest ==
  /\ fn = "extract_contacts_with_ai"
  /\ MayRequest
  /\ \E reply \in ExtractReplies : out' = Append(out, [reply |-> reply])
  /\ UNCHANGED <<fn, arg, pvars, svars, fvars>>

\* Lines 78-102: the reply is parsed and the dict returned.
ExtractReturn ==
  /\ fn = "extract_contacts_with_ai"
  /\ ~Ended
  /\ ~MayRequest
  /\ out' = Append(out, extract_contacts_call(IF NoContent THEN [kind |-> "fault"]
                                              ELSE ResponseOf(out[Len(out)].reply)))
  /\ UNCHANGED <<fn, arg, pvars, svars, fvars>>

AnswerTexts ==
  { <<" ","Y","e","s","."," ">>, <<"Y","E","S">>, <<"y","e","s">>, <<"n","o">>, <<"N","o",".">>, <<"N","o","t"," ","a"," ","r","e","s","t","a","u","r","a","n","t">>, <<>>,
    <<"N","o"," ","-"," ","y","e","s","t","e","r","d","a","y"," ","i","t"," ","c","l","o","s","e","d">>, <<"E","y","e","s"," ","o","n","l","y">> }

ClassifyReplies ==
  { [kind |-> "fault"], [kind |-> "message", content |-> None] }
    \cup { [kind |-> "message", content |-> t] : t \in AnswerTexts }

\* What the body of validate_restaurant_website comes to on a reply: the
\* answer text, or a fault (of the request, or of .strip() on None).
AnswerOf(reply) ==
  IF reply.kind = "fault" \/ reply.content = None THEN [kind |-> "fault"]
  ELSE [kind |-> "text", text |-> reply.content]

\* Lines 134-142: the request of validate_restaurant_website.
ClassifyRequest ==
  /\ fn = "validate_restaurant_website"
  /\ MayRequest
  /\ \E reply \in ClassifyReplies : out' = Append(out, [reply |-> reply])
  /\ UNCHANGED <<fn, arg, pvars, svars, fvars>>

\* Lines 144-149: 'yes' in the answer, and False from the handler.
ClassifyReturn ==
  /\ fn = "validate_restaurant_website"
  /\ ~Ended
  /\ ~MayRequest
  /\ out' = Append(out, [raised |-> "",
                         returned |-> validate_restaurant_website(
                           IF NoContent THEN [kind |-> "fault"]
                           ELSE AnswerOf(out[Len(out)].reply))])
  /\ UNCHANGED <<fn, arg, pvars, svars, fvars>>

\* The arguments of the two functions: a page content or None, and a
\* max_retries.
AdapterInputs ==
  { [page_content |-> c, max_retries |-> r] : c \in {None, <<"<","t","i","t","l","e",">","B","i","s","t","r","o","<","/","t","i","t","l","e",">">>}, r \in {0, 2} }

\* A direct call of the filters, of is_valid_email, of the extractor, of the
\* discoverer or of the adapter.
CallInit ==
  /\ PipelineIdle
  /\ SearchIdle
  /\ NoFlow
  /\ \/ \E u \in FilterUrls : CallEntry("filter", u)
     \/ \E e \in EmailInputs : CallEntry("is_valid_email", e)
     \/ \E m \in ExtractorInputs : CallEntry("extract", m)
     \/ \E d \in DiscovererInputs : CallEntry("find_contact_pages", d)
     \/ \E a \in AdapterInputs : CallEntry("extract_contacts_with_ai", a)
     \/ \E a \in AdapterInputs : CallEntry("validate_restaurant_website", a)

CallNext ==
  \/ CallFilters
  \/ CallValidator
  \/ CallExtractor
  \/ CallDiscoverer
  \/ ExtractRequest
  \/ ExtractReturn
  \/ ClassifyRequest
  \/ ClassifyReturn

CallSpec == CallInit /\ [][CallNext]_vars

\* ------------------------------------------------------------------------
\* The functions that create a browser, called directly:
\* scrape_single_page, search_google_web, scrape_google_maps_page and
\* search_business_directory.  The log of a call of the last two is kept in
\* out: its browser operations, then what it returned.
\* ------------------------------------------------------------------------

\* Lines 227-229, 285-287, 366-368: finally: if driver: driver.quit()
QuitIfDriver(driver) == IF driver THEN << [op |-> "quit"] >> ELSE <<>>

Returns(value) == << [raised |-> "", returned |-> value] >>

\* Lines 300-302 and 357-368: the driver of scrape_google_maps_page; a
\* fault of initialize_driver is caught with driver still None.
MapsPageDriver ==
  /\ fn = "scrape_google_maps_page"
  /\ out = <<>>
  /\ \E created \in BOOLEAN :
       out' = IF created THEN << [op |-> "create"] >>
              ELSE << [op |-> "create_failed"] >> \o QuitIfDriver(FALSE)
                     \o Returns(scrape_google_maps_page("fault", arg))
  /\ UNCHANGED <<fn, arg, pvars, svars, fvars>>

\* Lines 303-368: the page is rendered and read, the record returned and
\* the driver quit.
MapsPageRender ==
  /\ fn = "scrape_google_maps_page"
  /\ out = << [op |-> "create"] >>
  /\ \E shown \in DOMAIN MapsPageOf \cup {"fault"} :
       out' = out \o << [op |-> IF shown = "fault" THEN "get_fault" ELSE "get"] >>
                  \o QuitIfDriver(TRUE)
                  \o Returns(scrape_google_maps_page(shown, arg))
  /\ UNCHANGED <<fn, arg, pvars, svars, fvars>>

\* The hrefs of the links of a Google Maps result page.
DirectoryPages ==
  [places |-> << <<"/","m","a","p","s","/","p","l","a","c","e","/","A","c","m","e">>, <<"h","t","t","p","s",":","/","/","w","w","w",".","g","o","o","g","l","e",".","c","o","m","/","m","a","p","s","/","p","l","a","c","e","/","B","i","s","t","r","o">>,
                 <<"/","m","a","p","s","/","s","e","a","r","c","h","/","c","a","f","e","s">>, <<"/","m","a","p","s","/","p","l","a","c","e","/","A","c","m","e">>, <<"/","m","a","p","s","/","p","l","a","c","e","/","C","a","f","e","+","U","n","o">> >>,
   one |-> << <<"/","m","a","p","s","/","p","l","a","c","e","/","A","c","m","e">> >>,
   none |-> << <<"/","m","a","p","s","/","s","e","a","r","c","h","/","c","a","f","e","s">> >>]

DirectoryCap == 10

\* Lines 266-275: the first 10 links to a place, made absolute.
PlaceLinks(hrefs) ==
  LET IsPlace(href) == Contains(href, <<"/","m","a","p","s","/","p","l","a","c","e","/">>)
      place_results == Take(SelectSeq(hrefs, IsPlace), DirectoryCap)
  IN  [i \in 1..Len(place_results) |->
         IF ~Contains(place_results[i], <<"h","t","t","p","s">>) THEN <<"h","t","t","p","s",":","/","/","w","w","w",".","g","o","o","g","l","e",".","c","o","m">> \o place_results[i]
         ELSE place_results[i]]

\* Line 278: list(set(links))[:10]; the order of a set is any order.
UniqueLinks(links) ==
  LET distinct == {links[i] : i \in 1..Len(links)}
  IN  { Take(order, DirectoryCap) :
          order \in { f \in [1..Cardinality(distinct) -> distinct] :
                        \A i, j \in 1..Cardinality(distinct) : i # j => f[i] # f[j] } }

\* Lines 242-244 and 282-287: the driver of search_business_directory.
DirectoryDriver ==
  /\ fn = "search_business_directory"
  /\ out = <<>>
  /\ \E created \in BOOLEAN :
       out' = IF created THEN << [op |-> "create"] >>
              ELSE << [op |-> "create_failed"] >> \o QuitIfDriver(FALSE) \o Returns(<<>>)
  /\ UNCHANGED <<fn, arg, pvars, svars, fvars>>

\* Lines 246-287: the result page is rendered, scrolled and read, the links
\* returned and the driver quit; a fault returns the empty list.
DirectoryRender ==
  /\ fn = "search_business_directory"
  /\ out = << [op |-> "create"] >>
  /\ \/ out' = out \o << [op |-> "get_fault"] >> \o QuitIfDriver(TRUE) \o Returns(<<>>)
     \/ \E shown \in DOMAIN DirectoryPages :
          \E unique_links \in UniqueLinks(PlaceLinks(DirectoryPages[shown])) :
             out' = out \o << [op |-> "get"] >> \o QuitIfDriver(TRUE) \o Returns(unique_links)
  /\ UNCHANGED <<fn, arg, pvars, svars, fvars>>

\* A direct call of one of the four functions.
BrowserInit ==
  \/ Init
  \/ SearchInit
  \/ /\ PipelineIdle
     /\ SearchIdle
     /\ NoFlow
     /\ \/ \E i \in 1..Len(MapsUrls) : CallEntry("scrape_google_maps_page", MapsUrls[i])
        \/ CallEntry("search_business_directory", <<"c","a","f","e","s"," ","i","n"," ","c","o","i","m","b","a","t","o","r","e">>)

BrowserNext ==
  \/ PipelineStep
  \/ FirstSearch
  \/ FirstLink
  \/ FirstDone
  \/ SecondLink
  \/ SecondDone
  \/ MapsPageDriver
  \/ MapsPageRender
  \/ DirectoryDriver
  \/ DirectoryRender

BrowserSpec == BrowserInit /\ [][BrowserNext]_vars

\* ------------------------------------------------------------------------
\* Properties of the Page Pipeline
\* ------------------------------------------------------------------------

Count(l, op) == Cardinality({i \in 1..Len(l) : l[i] = op})

Logged(op) == \E i \in 1..Len(log) : log[i] = op

\* The position of the first op in the log, 0 when there is none.
LoggedAt(op) == FirstIndex(log, LAMBDA e : e = op)

Field(d, f) == Get(d, f)

\* C1: monotonic merge.  Once the record's email or phone holds a non-empty
\* value, no later step of the run changes that value.
C1_MonotonicMerge ==
  [][\A f \in {"email", "phone"} :
       Truthy(Field(contact_info, f)) => Field(contact_info, f)' = Field(contact_info, f)]_vars

\* C2: a non-empty email of the record being filled, and of the record
\* returned, satisfies the Contact Validator.
C2_StoredEmailValid ==
  /\ Truthy(Field(contact_info, "email")) => is_valid_email(contact_info.email)
  /\ pc = "returned" /\ Truthy(Field(ret, "email")) => is_valid_email(ret.email)

\* The classifier was asked and answered no.
ClassifiedNo == Logged("classify") /\ ~is_valid_restaurant

\* C3: a run ends with a record that is a success (email or phone non-empty,
\* is_valid true), not-applicable (is_valid false, only after the classifier
\* said no) or exhausted (is_valid true, email and phone empty).
C3_ThreeOutcomes ==
  /\ pc # "raised"
  /\ pc = "returned" =>
       /\ "is_valid" \in DOMAIN ret
       /\ ret.is_valid = FALSE => ClassifiedNo
       /\ Truthy(ret.email) \/ Truthy(ret.phone) => ret.is_valid = TRUE

\* C4: classification gate.  After the classifier said no the run has
\* returned the is_valid = false record, and the only operation logged after
\* the classification is the quit of the run's own driver: no AI
\* extraction, no pattern extraction, no discovery, no page visit.
C4_ClassificationGate ==
  ClassifiedNo =>
    /\ pc = "returned"
    /\ ret = NotValidResult(url)
    /\ \A i \in (LoggedAt("classify") + 1)..Len(log) : log[i] = "quit"
    /\ ~Logged("ai") /\ ~Logged("discover") /\ ~Logged("visit") /\ ~Logged("visit_fault")
    /\ visited = <<>>

C4_Witness == ClassifiedNo /\ pc = "returned" /\ Logged("quit")

\* The run is at or past the rendered fetch (which begins by getting a driver).
AtRenderedFetch ==
  \/ pc \in {"driver", "render"}
  \/ Logged("create") \/ Logged("create_failed")
  \/ Logged("render") \/ Logged("render_fault")

\* C5: FastAttempt early exit.  After the fast attempt, a run whose fast
\* result has an email has returned that result, and its only operations
\* are the fetch and the pattern extraction on the fetched page: no driver,
\* no render, no classification, no AI extraction.  A run whose fast result
\* has no email (a fetch fault included) is at or past the rendered fetch.
C5_FastAttemptExit ==
  pc # "fast" =>
    IF Truthy(fast_result.email)
      THEN /\ pc = "returned"
           /\ ret = DictSet(fast_result, "website", url)
           /\ log = <<"fetch", "pattern">>
      ELSE AtRenderedFetch

C5_Witness == pc = "returned" /\ Truthy(fast_result.email) /\ ret.email = fast_result.email

C5_WitnessFault == Logged("fetch_fault") /\ Logged("render")

\* What one pass of the contact-page loop appends to the log, the final
\* quit apart.
VisitOps(before, after) ==
  LET n == IF after # <<>> /\ after[Len(after)] = "quit" THEN Len(after) - 1 ELSE Len(after)
  IN  Slice(after, Len(before) + 1, n)

\* C6: the contact-page crawl starts only with the email empty; the pages
\* visited are the Discoverer's list for the home page, in its order, at
\* most 5 of them; a pass that renders its page runs the AI extraction,
\* then the pattern extraction (made when a field is still missing); no
\* page is visited once email and phone are both non-empty.
C6_ContactPageCrawl ==
  [][/\ (~Logged("discover") /\ Logged("discover")') =>
          /\ ~Truthy(contact_info'.email)
          /\ contact_pages' = find_contact_pages(PageOf[home], url)
     /\ visited' # visited =>
          /\ Logged("discover")
          /\ ~(Truthy(contact_info.email) /\ Truthy(contact_info.phone))
          /\ Len(visited') <= MaxVisits
          /\ visited' = SubSeq(contact_pages, 1, Len(visited) + 1)
          /\ VisitOps(log, log') \in
               { <<"visit_fault">>, <<"visit", "ai">>, <<"visit", "ai", "pattern">> }
          /\ VisitOps(log, log') = <<"visit", "ai">> =>
               Truthy(contact_info'.email) /\ Truthy(contact_info'.phone)]_vars

C6_Witness ==
  /\ Len(visited) = 3
  /\ Count(log, "ai") = 4
  /\ pc = "returned"
  /\ Truthy(ret.email) /\ Truthy(ret.phone)

\* C7: a transient fault is absorbed at its stage.  The step in which a
\* fetch, a render or a visit faults leaves the record unchanged and does
\* not end the run as a not-applicable (is_valid = false) record, and a
\* faulting visit is followed by the visit of the next contact page.
FaultOps == {"fetch_fault", "render_fault", "visit_fault"}

\* The operations this step appended to the log.
NewOps == {log'[i] : i \in (Len(log) + 1)..Len(log')}

C7_FaultAbsorbed ==
  [][NewOps \cap FaultOps # {} =>
       /\ contact_info' = contact_info
       /\ ~(pc' = "returned" /\ Field(ret', "is_valid") = FALSE)
       /\ ("visit_fault" \in NewOps /\ idx < Len(ToVisit)) => pc' = "crawl"]_vars

\* ------------------------------------------------------------------------
\* Claims about search_google_web, checked under SearchSpec
\* ------------------------------------------------------------------------

\* A URL with its scheme and host in lower case and without the slash that
\* ends it.
Normalized(u) ==
  LET p == PathStart(u)
      head == lower(Slice(u, 1, p - 1))
      rest == Slice(u, p, Len(u))
      whole == head \o rest
  IN  IF whole # <<>> /\ whole[Len(whole)] = "/"
        THEN Slice(whole, 1, Len(whole) - 1) ELSE whole

\* C9: the list a search returns holds no two URLs that are equal after
\* normalization (host compared without case, the slash at the end ignored).
C9_NoNormalizedDuplicates ==
  \A i \in 1..Len(website_urls) : \A j \in (i + 1)..Len(website_urls) :
    Normalized(website_urls[i]) # Normalized(website_urls[j])

\* How many times the second search was made.
SecondIssued(l) == Count(l, "get2") + Count(l, "get2_fault")

\* The number of different sites the first result page left after filtering.
FirstLeft == Cardinality(Elems(websites))

\* What a step of the search does to the second search and to the list.
AlternateQueryStep ==
  /\ (SecondIssued(slog') > SecondIssued(slog)) =>
       (/\ spc = "first"
        /\ SecondIssued(slog) = 0
        /\ SecondIssued(slog') = 1
        /\ FirstLeft < MinDirect)
  /\ (spc = "first" /\ spc' # "first" /\ FirstLeft < MinDirect) =>
       (SecondIssued(slog') = 1)
  /\ (spc = "second") =>
       (\/ unique_websites' = unique_websites
        \/ /\ Len(unique_websites') = Len(unique_websites) + 1
           /\ SubSeq(unique_websites', 1, Len(unique_websites)) = unique_websites
           /\ LET site == unique_websites'[Len(unique_websites')]
              IN  /\ site \notin Elems(unique_websites)
                  /\ ~Excluded(site)
                  /\ site = ActualUrl(raw2'[Len(raw2')]))
  /\ Len(unique_websites') <= CollectCap
  /\ Len(website_urls') <= ReturnCap
  /\ (spc' = "returned" /\ Count(slog', "get2_fault") = 0 /\ Count(slog', "get1") = 1) =>
       (website_urls' = Take(unique_websites', ReturnCap))

\* C10: the second search is made exactly when the first result page leaves
\* fewer than 5 filtered, different sites, and at most once; a site it adds
\* is not excluded, is not yet in the list and goes to the end of the list;
\* the list never holds more than 15 sites and the list returned is its
\* first 10 at most.
C10_AlternateQuery == [][AlternateQueryStep]_vars

\* The second search filled the list up to 15 sites after a first result
\* page that left between one and four; its page also held an excluded
\* link and a site already in the list.
C10_Witness ==
  /\ spc = "returned"
  /\ Count(slog, "get2") = 1
  /\ FirstLeft \in 1..(MinDirect - 1)
  /\ Len(unique_websites) = CollectCap
  /\ Len(website_urls) = ReturnCap
  /\ \E i \in 1..Len(raw2) :
       Contains(raw2[i], Redirect) /\ Excluded(ActualUrl(raw2[i]))
  /\ \E i \in 1..Len(raw2) : \E j \in 1..FirstLeft :
       Contains(raw2[i], Redirect) /\ ActualUrl(raw2[i]) = unique_websites[j]

\* The first result page left 5 sites or more and no second search was made.
C10_WitnessEnough ==
  /\ spc = "returned"
  /\ FirstLeft >= MinDirect
  /\ SecondIssued(slog) = 0
  /\ Len(website_urls) >= MinDirect

\* ------------------------------------------------------------------------
\* Claims about the discovery flows, checked under FlowSpec
\* ------------------------------------------------------------------------

\* The places 1..n in order.
UpTo(n) == [i \in 1..n |-> i]

SameSeq(s, r) == Len(s) = Len(r) /\ \A i \in 1..Len(s) : s[i] = r[i]

\* The places of the entries of a maps flow for which a website was found.
Sited == {i \in 1..Len(results) : Truthy(results[i].website)}

\* C8, as stated: whatever the faults, a flow that has returned has given
\* every entry of its list to the Page Pipeline exactly once, in list order.
C8_EveryCandidateHanded == fpc = "done" => SameSeq(handed, UpTo(Len(candidates)))

\* The entries a flow has dealt with so far: all of them once it returned.
Reached ==
  IF fpc = "done" THEN Len(candidates)
  ELSE IF fpc = "page" THEN position
  ELSE position - 1

\* A flow that has not returned is inside its search, inside a call of the
\* Page Pipeline, or at an entry of its list.
Underway ==
  \/ fpc = "search" /\ spc \in {"start", "first", "second", "returned"}
  \/ fpc = "page" /\ pc \in {"fast", "driver", "render", "classify", "ai",
                              "fallback", "crawl", "returned", "raised"}
  \/ fpc = "maps" /\ position <= Len(candidates)

\* C8, amended: whatever the faults, a flow deals with every entry of its
\* list exactly once and in list order, a fault on one entry never keeps it
\* from the entries after it, and the flow ends by returning its list.  In
\* the search flow every entry is given to the Page Pipeline; in the maps
\* flow every entry is given to the maps page scraper, and the website
\* found there, when one is found, is given to the Page Pipeline.
C8_CandidateIsolation ==
  /\ fpc \in {"page", "maps", "done"} =>
       /\ position \in 1..(Len(candidates) + 1)
       /\ flow = "search" => SameSeq(handed, UpTo(Reached)) /\ mapped = <<>>
       /\ flow = "maps" =>
            /\ SameSeq(mapped, UpTo(Reached))
            /\ \A i \in 1..Len(handed) : \A j \in 1..Len(handed) :
                 i < j => handed[i] < handed[j]
            /\ Len(results) = IF fpc = "page" THEN position - 1 ELSE Reached
            /\ Elems(handed) = Sited \cup (IF fpc = "page" THEN {position} ELSE {})
       /\ faulted \subseteq 1..Reached
  /\ fpc # "done" => Underway

\* Two entries, the first of which met a fault that ended its call, and a
\* flow that went on to the second and returned.
C8_Witness ==
  /\ fpc = "done"
  /\ flow = "search"
  /\ Len(candidates) = 2
  /\ 1 \in faulted
  /\ SameSeq(handed, <<1, 2>>)
  /\ Len(results) = 1

C8_WitnessMaps ==
  /\ fpc = "done"
  /\ flow = "maps"
  /\ Len(candidates) = 2
  /\ faulted = {1}
  /\ SameSeq(mapped, <<1, 2>>)
  /\ SameSeq(handed, <<1, 2>>)
  /\ Truthy(results[2].email)

\* C11: every record of the list a flow returns carries a non-empty
\* business name and a non-empty email or phone.
C11_ResultsCarryContact ==
  fpc = "done" =>
    \A i \in 1..Len(results) :
      /\ Truthy(results[i].business_name)
      /\ Truthy(results[i].email) \/ Truthy(results[i].phone)

ResultFields == {"business_name", "email", "phone", "website", "source_url"}

\* C14: every record of the list of a flow has the five fields
\* business_name, email, phone, website and source_url; a field without a
\* value holds None and is not left out.
C14_FiveFields ==
  \A i \in 1..Len(results) : DOMAIN results[i] = ResultFields

\* A maps flow returned a record whose email is None, and a record with an
\* email.
C14_Witness ==
  /\ fpc = "done"
  /\ flow = "maps"
  /\ \E i \in 1..Len(results) : results[i].email = None /\ results[i].website = None
  /\ \E i \in 1..Len(results) : Truthy(results[i].email)

\* A search flow returned a record with a phone and no email.
C14_WitnessSearch ==
  /\ fpc = "done"
  /\ flow = "search"
  /\ \E i \in 1..Len(results) : results[i].email = None /\ Truthy(results[i].phone)

\* ------------------------------------------------------------------------
\* Claims about the functions called directly, checked under CallSpec
\* ------------------------------------------------------------------------

Returned(f) == fn = f /\ out # <<>>

\* The host of a URL, in lower case.
HostOf(u) == netloc(lower(u))

\* C12: the search filter and the maps filter give the same verdict on
\* every URL, and the verdict is the same for two URLs with the same host.
C12_OneSharedFilter ==
  Returned("filter") =>
    /\ out[1].search = out[1].maps
    /\ \A u \in FilterUrls :
         HostOf(u) = HostOf(arg) =>
           /\ AcceptedBySearch(u) = out[1].search
           /\ IsWebsiteLink(u) = out[1].maps

\* ------------------------------------------------------------------------
\* Claims about what a search flow gives to the Page Pipeline, checked
\* under FlowSpec
\* ------------------------------------------------------------------------

EndsWith(s, p) == Len(p) <= Len(s) /\ Slice(s, Len(s) - Len(p) + 1, Len(s)) = p

\* The entries of the exclusion list that name a domain.
ListedDomains ==
  { excluded_domains[i] : i \in { k \in 1..Len(excluded_domains) :
      Contains(excluded_domains[k], <<".">>) /\ excluded_domains[k][1] # "/" } }

\* The URL is on the host of a listed domain, or of a subdomain of one.
OnListedHost(u) ==
  \E d \in ListedDomains : HostOf(u) = d \/ EndsWith(HostOf(u), <<".">> \o d)

\* The URL a raw result points to.
Target(href) == IF Contains(href, Redirect) THEN ActualUrl(href) ELSE href

\* The genuine business URLs among the raw results of the run: the URLs
\* that are on no listed host.
Genuine ==
  { u \in { Target(h) : h \in Elems(raw1) \cup Elems(raw2) } :
      startswith(u, <<"h","t","t","p">>) /\ ~OnListedHost(u) }

\* C13: a search flow whose raw results hold k genuine business URLs, k at
\* most 10, and any number of URLs of aggregator domains gives exactly those
\* k URLs to the Page Pipeline, each once.
C13_ExactlyGenuine ==
  ( /\ flow = "search"
    /\ fpc = "done"
    /\ Count(slog, "get1") = 1
    /\ Count(slog, "get2_fault") = 0
    /\ Cardinality(Genuine) <= ReturnCap ) =>
      /\ { candidates[handed[i]] : i \in 1..Len(handed) } = Genuine
      /\ Len(handed) = Cardinality(Genuine)

\* ------------------------------------------------------------------------
\* Properties of the Pattern Extractor
\* ------------------------------------------------------------------------

\* The five strategies' candidates on a page, in the order of the strategies:
\* the mailto addresses, the data-email values, the addresses of the contact
\* sections, the obfuscated addresses put together again, the addresses of
\* the whole page.
StrategyCandidates(page) ==
  << page.mailto,
     page.data_email,
     Flatten(page.sections),
     [i \in 1..Len(page.obfuscated) |->
        page.obfuscated[i][1] \o <<"@">> \o page.obfuscated[i][2] \o <<".">> \o page.obfuscated[i][3]],
     page.sweep >>

Accepted(cands) == {lower(cands[i]) : i \in {j \in 1..Len(cands) : is_valid_email(lower(cands[j]))}}

Extracted == fn = "extract" /\ out # <<>>

\* C15: the email the Pattern Extractor returns is an accepted candidate of
\* the earliest of the five strategies that has one, and it is none only
\* when no strategy has an accepted candidate.
C15_EarliestStrategy ==
  Extracted =>
    LET cands == StrategyCandidates(Parsed(arg))
        HasAccepted(c) == Accepted(c) # {}
        k == FirstIndex(cands, HasAccepted)
    IN  IF k = 0 THEN out[1].email = None ELSE out[1].email \in Accepted(cands[k])

\* C16: an email returned is accepted by the Contact Validator, and when
\* some candidate of some strategy is accepted an accepted email is returned.
C16_RejectedNeverAborts ==
  Extracted =>
    LET cands == StrategyCandidates(Parsed(arg))
    IN  /\ out[1].email # None => is_valid_email(out[1].email)
        /\ (\E k \in 1..Len(cands) : Accepted(cands[k]) # {})
             => out[1].email # None /\ is_valid_email(out[1].email)

\* C17: a phone the Pattern Extractor returns has 10 digits or more, and
\* when no tel: link gives one it is the digits of the first pattern, in the
\* order of the list, whose match has 10 digits or more.
C17_PhoneHasTenDigits ==
  Extracted =>
    LET page == Parsed(arg)
        phone == out[1].phone
        Enough(found) == found # <<>> /\ Len(DigitsOf(found[1])) >= MinPhoneDigits
        p == FirstIndex(page.phones, Enough)
    IN  /\ phone # None => Len(phone) >= MinPhoneDigits /\ \A i \in 1..Len(phone) : phone[i] \in Digit
        /\ PhoneFromTel(page) = None /\ p # 0 => phone = DigitsOf(page.phones[p][1])

\* The text of the example: an address written with [at] and [dot].
AtDotText == <<"i","n","f","o"," ","[","a","t","]"," ","a","c","m","e"," ","[","d","o","t","]"," ","c","o","m">>

\* C18: a page whose only address-like text is info [at] acme [dot] com,
\* without any "@", gives the email info@acme.com.
C18_Deobfuscated ==
  /\ Extracted
  /\ arg.body = AtDotText
  /\ arg.mailto = <<>>
  /\ arg.data_email = <<>>
  /\ \A i \in 1..Len(arg.sections) : ~Contains(arg.sections[i], <<"@">>)
  => out[1].email = <<"i","n","f","o","@","a","c","m","e",".","c","o","m">>

\* ------------------------------------------------------------------------
\* Properties of the Contact Validator
\* ------------------------------------------------------------------------

Validated == fn = "is_valid_email" /\ out # <<>>

Accepts == out[1].raised = "" /\ out[1].returned = TRUE

Rejects == out[1].raised = "" /\ out[1].returned = FALSE

\* The syntax rule local-part@domain.tld: one "@", a local part of the
\* local characters, a domain of the domain characters, and after the last
\* "." an alphabetic top-level part of two characters or more.
LocalPart(e) == SplitFirst(e, <<"@">>)

DomainPart(e) == Slice(e, Len(LocalPart(e)) + 2, Len(e))

SyntaxRule(e) ==
  /\ count(e, "@") = 1
  /\ LocalPart(e) # <<>>
  /\ AllIn(LocalPart(e), LocalChars)
  /\ LET tld == SplitLast(DomainPart(e), ".")
         name == Slice(DomainPart(e), 1, Len(DomainPart(e)) - Len(tld) - 1)
     IN  /\ Contains(DomainPart(e), <<".">>)
         /\ Len(tld) >= 2
         /\ AllIn(tld, Alpha)
         /\ name # <<>>
         /\ AllIn(name, DomainChars)

Blocklisted(e) == \E i \in 1..Len(invalid_patterns) : Contains(e, invalid_patterns[i])

\* C19: an address is_valid_email accepts, lower-cased and trimmed, has the
\* syntax local-part@domain.tld with an alphabetic top-level part of two
\* characters or more, is at most 100 long and holds no blocklist entry.
C19_ValidatorSound ==
  Validated /\ Accepts =>
    LET e == strip(lower(arg))
    IN  SyntaxRule(e) /\ Len(e) <= MaxEmailLen /\ ~Blocklisted(e)

C19_Witness ==
  /\ Validated
  /\ Accepts
  /\ arg = <<" ","I","n","f","o","@","A","c","m","e",".","T","e","s","t">>

\* An accepted address of exactly the greatest length.
C19_WitnessLongest ==
  /\ Validated
  /\ Accepts
  /\ Len(arg) = MaxEmailLen

\* The artifact shapes of a local part.
ArtifactShape(local) ==
  \/ count(local, "-") > 3
  \/ count(local, "_") > 3
  \/ ArtifactRun(local)
  \/ count(local, ".") > 2
  \/ /\ local[1] \in Digit
     /\ ~\E b \in BusinessStarts : startswith(local, b)

\* C20: an address that passes the syntax, length and blocklist rules is
\* rejected exactly when its local part has an artifact shape, whatever its
\* domain; info@example.com and test@zomato.com are rejected and
\* contact@bluefinrestaurant.com is accepted.
C20_ArtifactOfLocalPartOnly ==
  Validated /\ Truthy(arg) =>
    LET e == strip(lower(arg))
    IN  /\ SyntaxRule(e) /\ Len(e) <= MaxEmailLen /\ ~Blocklisted(e)
          => (Rejects <=> ArtifactShape(LocalPart(e)))
        /\ arg \in {<<"i","n","f","o","@","e","x","a","m","p","l","e",".","c","o","m">>, <<"t","e","s","t","@","z","o","m","a","t","o",".","c","o","m">>} => Rejects
        /\ arg = <<"c","o","n","t","a","c","t","@","b","l","u","e","f","i","n","r","e","s","t","a","u","r","a","n","t",".","c","o","m">> => Accepts

\* An input the syntax rule cannot read: empty, null, without "@", or not
\* of the shape local-part@domain.tld.
Unparseable(email) ==
  \/ ~Truthy(email)
  \/ ~Contains(email, <<"@">>)
  \/ ~SyntaxRule(strip(lower(email)))

ValidatorStep ==
  CallValidator =>
    /\ out'[1].raised = ""
    /\ out'[1].returned \in BOOLEAN
    /\ Unparseable(arg) => out'[1].returned = FALSE
    /\ UNCHANGED <<fn, arg, pvars, svars, fvars>>

\* C21: every call of is_valid_email, on an empty, null or unparseable input
\* too, gives a boolean without raising (FALSE on unparseable input) and
\* changes no state.
C21_ValidatorTotalAndPure == [][ValidatorStep]_vars

C21_Witness ==
  /\ Validated
  /\ arg = None
  /\ Rejects

\* The same for a string with an empty local part and for the empty string.
C21_WitnessUnparseable ==
  /\ Validated
  /\ arg \in {<<"@","a","c","m","e",".","t","e","s","t">>, <<>>}
  /\ Rejects

\* ------------------------------------------------------------------------
\* Properties of the Contact-Page Discoverer
\* ------------------------------------------------------------------------

Discovered == fn = "find_contact_pages" /\ out # <<>>

\* The link shows a contact intent: a keyword in its href or in its text.
Intent(link) ==
  \E k \in 1..Len(contact_keywords) :
    Contains(lower(link.href), contact_keywords[k]) \/ Contains(lower(link.text), contact_keywords[k])

\* The links of the call with a contact intent that resolve to u, by position.
SourcesOf(u) ==
  {k \in 1..Len(arg.links) : Intent(arg.links[k]) /\ urljoin(arg.base_url, arg.links[k].href) = u}

FirstSeen(u) == CHOOSE k \in SourcesOf(u) : \A j \in SourcesOf(u) : k <= j

\* C22: find_contact_pages returns at most 3 URLs without duplicates, each
\* the resolution against the base URL of a link with a contact keyword in
\* its text or href, each on the host of the base URL, in the order in which
\* the page shows them first; the links /contact-us, /about and /shop on
\* https://acme.test give the first two.
C22_ContactPages ==
  Discovered =>
    LET r == out[1]
    IN  /\ Len(r) <= MaxContactPages
        /\ \A i, j \in 1..Len(r) : i # j => r[i] # r[j]
        /\ \A i \in 1..Len(r) : SourcesOf(r[i]) # {} /\ HostOf(r[i]) = HostOf(arg.base_url)
        /\ \A i, j \in 1..Len(r) : i < j => FirstSeen(r[i]) < FirstSeen(r[j])
        /\ arg.links = MailtoMarkup.links /\ arg.base_url = <<"h","t","t","p","s",":","/","/","a","c","m","e",".","t","e","s","t">>
             => r = << <<"h","t","t","p","s",":","/","/","a","c","m","e",".","t","e","s","t","/","c","o","n","t","a","c","t","-","u","s">>, <<"h","t","t","p","s",":","/","/","a","c","m","e",".","t","e","s","t","/","a","b","o","u","t">> >>

\* More than three contact pages on the page: three are returned.
C22_Witness ==
  /\ Discovered
  /\ arg.links = TelMarkup.links
  /\ Len(out[1]) = MaxContactPages
  /\ Cardinality({urljoin(arg.base_url, arg.links[k].href) : k \in 1..Len(arg.links)}) > MaxContactPages

\* The example of the three links.
C22_WitnessExample ==
  /\ Discovered
  /\ arg.links = MailtoMarkup.links
  /\ arg.base_url = <<"h","t","t","p","s",":","/","/","a","c","m","e",".","t","e","s","t">>
  /\ Len(out[1]) = 2

\* ------------------------------------------------------------------------
\* The Inference Adapter
\* ------------------------------------------------------------------------

\* The call of f has ended; its outcome; the reply to its request, if it
\* made one.
Over(f) == fn = f /\ Ended

Outcome == out[Len(out)]

Requested == RequestsMade > 0

Reply == out[1].reply

Faulted == ~Requested \/ Reply.kind = "fault" \/ Reply.content = None

\* The reply holds no JSON object once stripped and taken out of its fence.
ParseFailure == ~Faulted /\ json_loads(Unfenced(Reply.content)).kind # "object"

\* A JSON object in a code fence marked json.
FencedObject ==
  <<"GRAVE","GRAVE","GRAVE","j","s","o","n","\n","{","\"","e","m","a","i","l","\"",":"," ","\"","c","h","e","f","@","b","i","s","t","r","o",".","i","n","\"",","," ","\"","p","h","o","n","e","\"",":"," ","n","u","l","l",","," ","\"","b","u","s","i","n","e","s","s","_","n","a","m","e","\"",":"," ","\"","B","i","s","t","r","o","\"",","," ","\"","i","s","_","r","e","s","t","a","u","r","a","n","t","\"",":"," ","t","r","u","e","}","\n","GRAVE","GRAVE","GRAVE">>

AIResultFields == {"email", "phone", "business_name", "is_restaurant"}

\* C23: extract_contacts_with_ai never raises and returns a result with
\* exactly the fields email, phone, business_name and is_restaurant; after a
\* fault of the service or a reply that holds no JSON object (malformed, a
\* list, a bare string) the three texts are None and is_restaurant is false;
\* an object in a code fence is read.
C23_FaultContainment ==
  Over("extract_contacts_with_ai") =>
    /\ Outcome.raised = ""
    /\ DOMAIN Outcome.returned = AIResultFields
    /\ Faulted \/ ParseFailure =>
         /\ Outcome.returned.email = None
         /\ Outcome.returned.phone = None
         /\ Outcome.returned.business_name = None
         /\ Outcome.returned.is_restaurant = FALSE
    /\ ~Faulted /\ Reply.content = FencedObject =>
         Outcome.returned = [email |-> <<"c","h","e","f","@","b","i","s","t","r","o",".","i","n">>, phone |-> None,
                             business_name |-> <<"B","i","s","t","r","o">>, is_restaurant |-> TRUE]

\* The service faulted and the empty result came back.
C23_Witness ==
  /\ Over("extract_contacts_with_ai")
  /\ Requested
  /\ Reply.kind = "fault"
  /\ Outcome.raised = ""
  /\ Outcome.returned = EmptyAIResult

\* A list came back as JSON.
C23_WitnessList ==
  /\ Over("extract_contacts_with_ai")
  /\ ~Faulted
  /\ Reply.content = <<"[","1",","," ","2","]">>
  /\ Outcome.returned = EmptyAIResult

\* An object in a code fence is read.
C23_WitnessFenced ==
  /\ Over("extract_contacts_with_ai")
  /\ ~Faulted
  /\ Reply.content = FencedObject
  /\ Outcome.returned.email = <<"c","h","e","f","@","b","i","s","t","r","o",".","i","n">>
  /\ Outcome.returned.is_restaurant = TRUE

\* The answer, lower-cased, has "yes" in it.
Affirmative == ~Faulted /\ Contains(lower(Reply.content), <<"y","e","s">>)

\* C24: validate_restaurant_website never raises, and returns true exactly
\* when the service answered without fault and the answer contains the
\* token yes, in whatever case; every other answer and every fault give
\* false.
C24_AffirmativeOnly ==
  Over("validate_restaurant_website") =>
    /\ Outcome.raised = ""
    /\ Outcome.returned \in BOOLEAN
    /\ Outcome.returned <=> Affirmative

\* An answer that has more than the token in it is taken as true.
C24_Witness ==
  /\ Over("validate_restaurant_website")
  /\ ~Faulted
  /\ Reply.content = <<" ","Y","e","s","."," ">>
  /\ Outcome.returned = TRUE

\* A fault gives false.
C24_WitnessFault ==
  /\ Over("validate_restaurant_website")
  /\ Requested
  /\ Reply.kind = "fault"
  /\ Outcome.returned = FALSE

AdapterCall == fn \in {"extract_contacts_with_ai", "validate_restaurant_website"}

C26_WitnessClassifier ==
  /\ Over("validate_restaurant_website")
  /\ arg.max_retries = 2
  /\ RequestsMade = 1
  /\ Reply.kind = "fault"

\* ------------------------------------------------------------------------
\* Work done by a run of the Page Pipeline
\* ------------------------------------------------------------------------

Terminal == pc \in {"returned", "raised"}

\* The places in the log of the visits of contact pages, and of the AI
\* extractions made before the first of them (on the home page).
VisitsAt == {i \in 1..Len(log) : log[i] \in {"visit", "visit_fault"}}

HomeAIAt == {i \in 1..Len(log) : log[i] = "ai" /\ \A v \in VisitsAt : i < v}

\* The AI extractions of the visit at v: those after v and before the next
\* visit.
VisitAIAt(v) ==
  {i \in (v + 1)..Len(log) : log[i] = "ai" /\ \A w \in VisitsAt : w > v => i < w}

\* The URLs the links of the rendered home page lead to.
HomeLinkTargets ==
  IF home = "none" THEN {}
  ELSE {urljoin(url, PageOf[home].links[k].href) : k \in 1..Len(PageOf[home].links)}

WorkBounded ==
  /\ Count(log, "fetch") + Count(log, "fetch_fault") <= 1
  /\ Count(log, "create") + Count(log, "create_failed") <= 1
  /\ Count(log, "render") + Count(log, "render_fault") <= 1
  /\ Count(log, "classify") <= 1
  /\ Cardinality(HomeAIAt) <= 1
  /\ Count(log, "discover") <= 1
  /\ Cardinality(VisitsAt) <= MaxVisits
  /\ Cardinality(VisitsAt) = Len(visited)
  /\ \A v \in VisitsAt : Cardinality(VisitAIAt(v)) <= 1
  /\ \A i \in 1..Len(visited) : visited[i] \in HomeLinkTargets
  /\ pc \in Stages
  /\ pc = "crawl" => idx <= Len(ToVisit)

\* C25: a run of scrape_single_page whose external calls all return or fault
\* ends, and makes at most one fetch without a browser, one render of the
\* home page, one classification, one AI extraction on the home page, one
\* discovery of contact pages, and at most 5 visits of contact pages with at
\* most one AI extraction each; every page visited is the target of a link
\* of the home page.
C25_BoundedWork == [](WorkBounded) /\ <>Terminal

\* A run that ended after three visits with an AI extraction each.
C25_Witness ==
  /\ pc = "returned"
  /\ Len(visited) = 3
  /\ Cardinality(HomeAIAt) = 1
  /\ Count(log, "ai") = 4
  /\ Count(log, "classify") = 1

\* ------------------------------------------------------------------------
\* Classification in the two flows
\* ------------------------------------------------------------------------

\* A classification stands in the log before an AI extraction.
ClassifiedBeforeAI ==
  \E i, j \in 1..Len(log) : i < j /\ log[i] = "classify" /\ log[j] = "ai"

\* C27: in the maps-driven flow no classification precedes the extraction
\* on a business website, and in the search-driven flow every AI extraction
\* is preceded by the classification.
C27_MapsNeverClassifies ==
  /\ caller = "maps" => ~ClassifiedBeforeAI
  /\ caller = "search" =>
       \A j \in 1..Len(log) : log[j] = "ai" => \E i \in 1..(j - 1) : log[i] = "classify"

\* The half on the search-driven flow.
C27_SearchClassifiesFirst ==
  caller = "search" =>
    \A j \in 1..Len(log) : log[j] = "ai" => \E i \in 1..(j - 1) : log[i] = "classify"

\* The maps-driven flow has classified a website and then run the AI
\* extraction on it.
C27_MapsClassified == flow = "maps" /\ caller = "maps" /\ ClassifiedBeforeAI

\* ------------------------------------------------------------------------
\* The list search_google_web returns
\* ------------------------------------------------------------------------

\* What the links read so far have given, in the order they were read: the
\* site kept from each link of the first and of the second result page, or
\* None.
KeptInOrder ==
  [k \in 1..Len(raw1) |-> KeptFirst(raw1[k])] \o [k \in 1..Len(raw2) |-> KeptSecond(raw2[k])]

SeenAt(kept, u) == {k \in 1..Len(kept) : kept[k] = u}

FirstSeenAt(kept, u) == CHOOSE k \in SeenAt(kept, u) : \A j \in SeenAt(kept, u) : k <= j

SearchFaulted == \E i \in 1..Len(slog) : slog[i] \in {"create_failed", "get1_fault", "get2_fault"}

\* C28: the list search_google_web returns has at most 10 entries, no entry
\* twice, every entry starts with http and contains no entry of the
\* exclusion list, the entries stand in the order in which the result pages
\* showed them first, and after a fault of the search the list is empty.
C28_ReturnedList ==
  spc = "returned" =>
    LET kept == KeptInOrder
        first == [i \in 1..Len(website_urls) |->
                    IF SeenAt(kept, website_urls[i]) = {} THEN 0
                    ELSE FirstSeenAt(kept, website_urls[i])]
    IN  /\ Len(website_urls) <= ReturnCap
        /\ \A i, j \in 1..Len(website_urls) : i # j => website_urls[i] # website_urls[j]
        /\ \A i \in 1..Len(website_urls) :
             /\ startswith(website_urls[i], <<"h","t","t","p">>)
             /\ \A k \in 1..Len(excluded_domains) : ~Contains(website_urls[i], excluded_domains[k])
             /\ first[i] > 0
        /\ \A i, j \in 1..Len(website_urls) : i < j => first[i] < first[j]
        /\ SearchFaulted => website_urls = <<>>

\* Ten sites returned out of 15 collected from two result pages that showed
\* some site more than once.
C28_Witness ==
  /\ spc = "returned"
  /\ Len(website_urls) = ReturnCap
  /\ Len(unique_websites) = CollectCap
  /\ raw2 # <<>>
  /\ \E i \in 1..Len(website_urls) : Cardinality(SeenAt(KeptInOrder, website_urls[i])) > 1

\* The second search faulted after the first had found sites.
C28_WitnessFault ==
  /\ spc = "returned"
  /\ Count(slog, "get2_fault") = 1
  /\ unique_websites # <<>>
  /\ website_urls = <<>>

\* ------------------------------------------------------------------------
\* The fast attempt in the search-driven flow
\* ------------------------------------------------------------------------

\* The run of scrape_single_page returned from its fast attempt: it made
\* the fetch and the pattern extraction and nothing else.
EndedAtFastAttempt == pc = "returned" /\ log = <<"fetch", "pattern">>

\* The run went through the classification with the verdict true.
PassedClassify == Logged("classify") /\ is_valid_restaurant = TRUE

\* What the search-driven flow does with a run that has returned.
FastAttemptStep ==
  (flow = "search" /\ fpc = "page" /\ pc = "returned") =>
    /\ EndedAtFastAttempt =>
         /\ Truthy(Get(ret, "email"))
         /\ "business_name" \notin DOMAIN ret
         /\ results' = results
    /\ results' # results =>
         /\ PassedClassify
         /\ Len(results') = Len(results) + 1
         /\ results'[Len(results')].website = url
         /\ results'[Len(results')].email = Get(ret, "email")

\* C29: in the search-driven flow a run of scrape_single_page that returns
\* from the fast attempt adds no record to the results, its record having no
\* business name; every record added comes from a run that went through the
\* classification with the verdict true.
C29_FastAttemptNeverListed == [][FastAttemptStep]_vars

\* The flow has returned; the run on its last candidate ended at the fast
\* attempt with an email, and no record was added.
C29_Witness ==
  /\ flow = "search"
  /\ fpc = "done"
  /\ candidates # <<>>
  /\ EndedAtFastAttempt
  /\ Truthy(Get(ret, "email"))
  /\ results = <<>>

\* The flow has returned with the record of a classified run.
C29_WitnessListed ==
  /\ flow = "search"
  /\ fpc = "done"
  /\ PassedClassify
  /\ results # <<>>

\* ------------------------------------------------------------------------
\* The life of the browser drivers
\* ------------------------------------------------------------------------

\* How often a call of scrape_google_maps_page or search_business_directory
\* has made the browser operation op.
Ops(op) == Cardinality({i \in 1..Len(out) : "op" \in DOMAIN out[i] /\ out[i].op = op})

OwnsDriver == fn \in {"scrape_google_maps_page", "search_business_directory"}

\* C30: a driver that scrape_single_page (called without one),
\* search_google_web, scrape_google_maps_page or search_business_directory
\* created is quit exactly once when the function has returned, whatever the
\* path, and never before; no function creates two; a driver given to
\* scrape_single_page is never quit by it; the return from the fast attempt
\* creates no driver.
C30_BrowserLifecycle ==
  /\ Count(log, "create") <= 1
  /\ Count(log, "quit") <= Count(log, "create")
  /\ Logged("quit") => pc = "returned" /\ log[Len(log)] = "quit"
  /\ pc \in {"returned", "raised"} => Count(log, "quit") = Count(log, "create")
  /\ driver_given => ~Logged("quit") /\ ~Logged("create") /\ ~Logged("create_failed")
  /\ EndedAtFastAttempt => ~Logged("create") /\ ~Logged("create_failed") /\ ~Logged("quit")
  /\ Count(slog, "create") <= 1
  /\ Count(slog, "quit") <= Count(slog, "create")
  /\ Count(slog, "quit") > 0 => spc = "returned" /\ slog[Len(slog)] = "quit"
  /\ spc = "returned" => Count(slog, "quit") = Count(slog, "create")
  /\ OwnsDriver =>
       /\ Ops("create") <= 1
       /\ Ops("quit") <= Ops("create")
       /\ Ops("quit") > 0 => Ended
       /\ Ended => Ops("quit") = Ops("create") /\ out[Len(out)].raised = ""

\* scrape_single_page created a driver, the classifier said no, and the
\* driver was quit on the early return.
C30_Witness ==
  /\ pc = "returned"
  /\ ~driver_given
  /\ Logged("classify")
  /\ ~is_valid_restaurant
  /\ Count(log, "create") = 1
  /\ Count(log, "quit") = 1

\* scrape_single_page rendered with a driver given to it and returned
\* without quitting it.
C30_WitnessGiven ==
  /\ pc = "returned"
  /\ driver_given
  /\ Logged("render")
  /\ Logged("ai")
  /\ ~Logged("quit")

\* search_google_web quit its driver after a fault of the second query.
C30_WitnessSearch ==
  /\ spc = "returned"
  /\ Count(slog, "get2_fault") = 1
  /\ Count(slog, "quit") = 1

\* scrape_google_maps_page quit its driver after a fault of the render.
C30_WitnessMaps ==
  /\ fn = "scrape_google_maps_page"
  /\ Ended
  /\ Ops("get_fault") = 1
  /\ Ops("quit") = 1

\* search_business_directory returned three links and quit its driver.
C30_WitnessDirectory ==
  /\ fn = "search_business_directory"
  /\ Ended
  /\ Len(out[Len(out)].returned) = 3
  /\ Ops("quit") = 1

\* A driver that could not be created is not quit.
C30_WitnessNoDriver ==
  /\ fn = "search_business_directory"
  /\ Ended
  /\ Ops("create_failed") = 1
  /\ Ops("quit") = 0

====
